---------------------------- MODULE Spec2Model ----------------------------
(***************************************************************************)
(* A model of the emoji-script markup transpiler (MarkupParser: the tag    *)
(* scanner of markup_parser.go and the code generator of                   *)
(* markup_transpiler.go).                                                  *)
(*                                                                         *)
(* A Go string is a sequence of one-character strings: "<a>" is            *)
(* <<"<","a",">">>.  A mapped emoji is one element named by its code point *)
(* ("U+1F4BE").  The zero byte that peek returns past the end of the       *)
(* input is the element NUL.                                               *)
(***************************************************************************)
EXTENDS Integers, Sequences, FiniteSets, TLC

VARIABLES
    source,       \* the text handed to NewMarkupParser
    input,        \* MarkupParser.input
    position,     \* MarkupParser.position (0-based offset)
    line,         \* MarkupParser.line
    column,       \* MarkupParser.column
    errors,       \* MarkupParser.errors
    warnings,     \* MarkupParser.warnings
    targetLang,   \* MarkupParser.targetLang
    indentLevel,  \* MarkupParser.indentLevel
    scopeVars,    \* MarkupParser.scopeVars
    result,       \* Parse's result builder
    stack,        \* the activations of parseTag that are inside their content loop
    pc,           \* where Parse is: "start", "scan", "content", "failed", "done"
    callErr,      \* the error parseTag returned to Parse (pc = "failed")
    ret,          \* what Parse returned (pc = "done")
    returned,     \* history: the tags parseTag calls returned without error, in order
    iterPos,      \* history: position when the running top-level iteration began
    vName,        \* the name validateIdentifier is called with
    validated,    \* history: what the calls of validateIdentifier(vName) returned
    callTag,      \* the tag a transpile function is called with on its own
    callOut,      \* history: what the calls on callTag returned
    prevRuns,     \* history: source and result of the earlier runs of Parse
    build,        \* which server this is: "api" (api/transpile.go) or "main" (main.go)
    now,          \* the clock that time.Now reads
    cache,        \* TranspileCache.cache: key -> CacheEntry
    heap,         \* the TranspileResponse objects that pointers refer to, by address 1..
    used,         \* history: the keys in the order of their last use by Get or Set
    pending,      \* what is still to happen to the server: requests arriving, time passing
    rpc,          \* where each request's handler is
    req,          \* each handler's decoded request
    loc,          \* each handler's local variables
    resp,         \* what each handler wrote to its client
    access,       \* the response object each handler is reading or writing now
    readers,      \* the handlers that hold cache.mu for reading
    writer,       \* the handler that holds cache.mu for writing, or 0
    parsing,      \* the handler whose MarkupParser is running, or 0
    crashed,      \* the runtime ended the process (concurrent map access)
    client,       \* which lib/api.ts the page runs: "retry" or "timeout"
    abortController, \* APIClient.abortController: the controller made last, or 0
    controllers,  \* the AbortControllers made so far
    timers,       \* the timers setTimeout made
    fetches,      \* the calls of fetchWithRetry
    store,        \* the state of useEditorStore
    settings,     \* the state of useSettingsStore
    debounceTimer,   \* CodeEditor's debounceTimer.current, or 0
    transpiles    \* the calls of transpileCode

vars == <<source, input, position, line, column, errors, warnings, targetLang,
          indentLevel, scopeVars, result, stack, pc, callErr, ret, returned, iterPos,
          vName, validated, callTag, callOut, prevRuns,
          build, now, cache, heap, used,
          pending, rpc, req, loc, resp, access, readers, writer, parsing, crashed,
          client, abortController, controllers, timers, fetches,
          store, settings, debounceTimer, transpiles>>

\* the MarkupParser's fields
parserFields == <<input, position, line, column, errors, warnings, targetLang,
                  indentLevel, scopeVars>>

\* the variables of the run of Parse
parseVars == <<source, input, position, line, column, errors, warnings, targetLang,
               indentLevel, scopeVars, result, stack, pc, callErr, ret, returned, iterPos>>

validateVars == <<vName, validated>>

transpileVars == <<callTag, callOut>>

\* the server's response cache
cacheVars == <<build, now, cache, heap, used>>

\* the handlers of the transpile route
handlerVars == <<pending, rpc, req, loc, resp, access, readers, writer, parsing, crashed>>

\* the API client of the page
clientVars == <<client, abortController, controllers, timers, fetches>>

\* the code editor of the page
editorVars == <<store, settings, debounceTimer, transpiles>>

browserVars == <<clientVars, editorVars>>

\* what a run of Parse leaves alone
outside == <<validateVars, transpileVars, prevRuns, cacheVars, handlerVars, browserVars>>

---------------------------------------------------------------------------
(* Strings *)

\* F applied to the value of v, v being evaluated once
With(v, F(_)) == CHOOSE r \in {F(x) : x \in {v}} : TRUE

NUL == "NUL"

Lowers == <<"a","b","c","d","e","f","g","h","i","j","k","l","m","n","o","p","q","r","s","t","u","v","w","x","y","z">>
Uppers == <<"A","B","C","D","E","F","G","H","I","J","K","L","M","N","O","P","Q","R","S","T","U","V","W","X","Y","Z">>
Digits == <<"0","1","2","3","4","5","6","7","8","9">>

Range(s) == {s[i] : i \in 1..Len(s)}

\* strings.ToLower on one ASCII byte
ToLowerCh(ch) ==
    IF \E i \in 1..Len(Uppers) : Uppers[i] = ch
    THEN Lowers[CHOOSE i \in 1..Len(Uppers) : Uppers[i] = ch]
    ELSE ch

ToLower(s) == [i \in 1..Len(s) |-> ToLowerCh(s[i])]

\* the characters strings.TrimSpace removes
IsSpaceCh(ch) == ch \in {" ", "\t", "\n", "\r", "\f"}

TrimSpace(s) ==
    LET idx == {i \in 1..Len(s) : ~IsSpaceCh(s[i])}
    IN IF idx = {} THEN <<>>
       ELSE LET lo == CHOOSE i \in idx : \A j \in idx : i <= j
                hi == CHOOSE i \in idx : \A j \in idx : i >= j
            IN SubSeq(s, lo, hi)

HasPrefixAt(s, i, pre) ==
    /\ i + Len(pre) - 1 <= Len(s)
    /\ \A k \in 1..Len(pre) : s[i + k - 1] = pre[k]

\* strings.Contains
Contains(s, sub) == \E i \in 1..(Len(s) - Len(sub) + 1) : HasPrefixAt(s, i, sub)

\* strings.ReplaceAll for a non-empty pattern
ReplaceAll(s, old, new) ==
    LET RECURSIVE go(_)
        go(i) == IF i > Len(s) THEN <<>>
                 ELSE IF HasPrefixAt(s, i, old) THEN new \o go(i + Len(old))
                 ELSE <<s[i]>> \o go(i + 1)
    IN go(1)

\* strings.Join
Join(ss, sep) ==
    LET RECURSIVE go(_)
        go(i) == IF i > Len(ss) THEN <<>>
                 ELSE IF i = Len(ss) THEN ss[i]
                 ELSE ss[i] \o sep \o go(i + 1)
    IN go(1)

\* strings.SplitN(s, sep, 2) for a one-character separator
SplitN2(s, sep) ==
    LET idx == {i \in 1..Len(s) : s[i] = sep}
    IN IF idx = {} THEN <<s>>
       ELSE LET k == CHOOSE i \in idx : \A j \in idx : i <= j
            IN <<SubSeq(s, 1, k - 1), SubSeq(s, k + 1, Len(s))>>

\* strings.Split(s, sep) for a one-character separator
Split(s, sep) ==
    LET RECURSIVE go(_, _)
        go(i, cur) == IF i > Len(s) THEN <<cur>>
                      ELSE IF s[i] = sep THEN <<cur>> \o go(i + 1, <<>>)
                      ELSE go(i + 1, Append(cur, s[i]))
    IN go(1, <<>>)

\* the %d verb for a non-negative integer
FmtInt(n) ==
    LET RECURSIVE go(_)
        go(k) == IF k < 10 THEN <<Digits[k + 1]>>
                 ELSE go(k \div 10) \o <<Digits[(k % 10) + 1]>>
    IN go(n)

---------------------------------------------------------------------------
(* The scanner's helpers: a cursor is [position, line, column] *)

peek(s, c) == IF c.position >= Len(s) THEN NUL ELSE s[c.position + 1]

peekNext(s, c) == IF c.position + 1 >= Len(s) THEN NUL ELSE s[c.position + 2]

advance(s, c) ==
    IF c.position < Len(s)
    THEN IF s[c.position + 1] = "\n"
         THEN [position |-> c.position + 1, line |-> c.line + 1, column |-> 1]
         ELSE [position |-> c.position + 1, line |-> c.line, column |-> c.column + 1]
    ELSE c

isWhitespace(ch) == ch \in {" ", "\t", "\n", "\r"}

skipWhitespace(s, c) ==
    LET RECURSIVE go(_)
        go(k) == IF k.position < Len(s) /\ isWhitespace(peek(s, k))
                 THEN With(advance(s, k), LAMBDA k1 : go(k1)) ELSE k
    IN With(c, LAMBDA c0 : go(c0))

IsIdentCh(ch) ==
    \/ ch \in Range(Lowers)
    \/ ch \in Range(Uppers)
    \/ ch \in Range(Digits)
    \/ ch = "-"
    \/ ch = "_"

\* returns [val, cur]
parseIdentifier(s, c) ==
    LET RECURSIVE go(_, _)
        go(k, acc) == IF k.position < Len(s) /\ IsIdentCh(peek(s, k))
                      THEN With(advance(s, k), LAMBDA k1 : go(k1, Append(acc, peek(s, k))))
                      ELSE [val |-> acc, cur |-> k]
    IN With(c, LAMBDA c0 : go(c0, <<>>))

\* returns [val, cur]
parseAttributeValue(s, c) ==
    LET RECURSIVE quoted(_, _, _)
        quoted(k, acc, quote) ==
            IF k.position < Len(s) /\ peek(s, k) # quote
            THEN IF peek(s, k) = "\\"
                 THEN With(advance(s, k), LAMBDA k1 :
                         IF k1.position < Len(s)
                         THEN With(advance(s, k1), LAMBDA k2 :
                                 quoted(k2, Append(acc, peek(s, k1)), quote))
                         ELSE quoted(k1, acc, quote))
                 ELSE With(advance(s, k), LAMBDA k1 :
                         quoted(k1, Append(acc, peek(s, k)), quote))
            ELSE [val |-> acc,
                  cur |-> IF peek(s, k) = quote THEN advance(s, k) ELSE k]
        RECURSIVE bare(_, _)
        bare(k, acc) ==
            IF k.position < Len(s) /\ peek(s, k) \notin {">", " ", "\t", "\n", "\r"}
            THEN With(advance(s, k), LAMBDA k1 : bare(k1, Append(acc, peek(s, k))))
            ELSE [val |-> acc, cur |-> k]
        value(c0) ==
            IF peek(s, c0) = "\"" \/ peek(s, c0) = "'"
            THEN With(advance(s, c0), LAMBDA k : quoted(k, <<>>, peek(s, c0)))
            ELSE bare(c0, <<>>)
    IN With(skipWhitespace(s, c), LAMBDA c0 : value(c0))

\* the raw text returned with its surrounding whitespace
parseRawCode_Untrimmed(s, c) ==
    LET RECURSIVE go(_, _)
        go(k, acc) == IF k.position < Len(s) /\ peek(s, k) # "<"
                      THEN With(advance(s, k), LAMBDA k1 : go(k1, Append(acc, peek(s, k))))
                      ELSE [val |-> acc, cur |-> k]
    IN With(c, LAMBDA c0 : go(c0, <<>>))

\* parseRawCode: returns [val, cur]
parseRawCode(s, c) ==
    LET RECURSIVE go(_, _)
        go(k, acc) == IF k.position < Len(s) /\ peek(s, k) # "<"
                      THEN With(advance(s, k), LAMBDA k1 : go(k1, Append(acc, peek(s, k))))
                      ELSE [val |-> TrimSpace(acc), cur |-> k]
    IN With(c, LAMBDA c0 : go(c0, <<>>))

---------------------------------------------------------------------------
(* Tags: MarkupTag is [Name, Attributes, Content, Children, Line, Column] *)

NoAttributes == [k \in {} |-> <<>>]

\* tag.Attributes[key]: the empty string when the key is absent
Attr(tag, key) ==
    IF key \in DOMAIN tag.Attributes THEN tag.Attributes[key] ELSE <<>>

SetAttr(attrs, key, val) ==
    [k \in (DOMAIN attrs) \cup {key} |-> IF k = key THEN val ELSE attrs[k]]

\* the messages of parseTag and parseClosingTag
ErrExpectedLt(c) ==
    <<"e","x","p","e","c","t","e","d"," ","'","<","'"," ","a","t"," ","l","i","n","e"," ">> \o FmtInt(c.line) \o <<","," ","c","o","l","u","m","n"," ">> \o FmtInt(c.column)

ErrExpectedTagName(c) ==
    <<"e","x","p","e","c","t","e","d"," ","t","a","g"," ","n","a","m","e"," ","a","t"," ","l","i","n","e"," ">> \o FmtInt(c.line) \o <<","," ","c","o","l","u","m","n"," ">> \o FmtInt(c.column)

ErrExpectedGtAfterSlash(c) ==
    <<"e","x","p","e","c","t","e","d"," ","'",">","'"," ","a","f","t","e","r"," ","'","/","'"," ","a","t"," ","l","i","n","e"," ">> \o FmtInt(c.line) \o <<","," ","c","o","l","u","m","n"," ">> \o FmtInt(c.column)

ErrExpectedGt(c) ==
    <<"e","x","p","e","c","t","e","d"," ","'",">","'"," ","a","t"," ","l","i","n","e"," ">> \o FmtInt(c.line) \o <<","," ","c","o","l","u","m","n"," ">> \o FmtInt(c.column)

ErrExpectedGtInClosing(c) ==
    <<"e","x","p","e","c","t","e","d"," ","'",">","'"," ","i","n"," ","c","l","o","s","i","n","g"," ","t","a","g"," ","a","t"," ","l","i","n","e"," ">> \o FmtInt(c.line)

ErrUnclosed(tagName, tagLine, tagColumn) ==
    <<"u","n","c","l","o","s","e","d"," ","t","a","g"," ","<">> \o tagName \o <<">"," ","a","t"," ","l","i","n","e"," ">> \o FmtInt(tagLine)
        \o <<","," ","c","o","l","u","m","n"," ">> \o FmtInt(tagColumn)

\* parseClosingTag after "</" and the name id
parseClosingTagEnd(s, id, c) ==
    IF id.val = <<>>
    THEN [kind |-> "err", err |-> <<"e","x","p","e","c","t","e","d"," ","t","a","g"," ","n","a","m","e"," ","i","n"," ","c","l","o","s","i","n","g"," ","t","a","g">>, cur |-> id.cur]
    ELSE IF peek(s, c) # ">"
    THEN [kind |-> "err", err |-> <<"e","x","p","e","c","t","e","d"," ","'",">","'"," ","i","n"," ","c","l","o","s","i","n","g"," ","t","a","g">>, cur |-> c]
    ELSE [kind |-> "tag",
          tag |-> [Name |-> id.val, Attributes |-> NoAttributes, Content |-> <<>>,
                   Children |-> <<>>, Line |-> 0, Column |-> 0],
          cur |-> advance(s, c)]

\* parseClosingTag after "<" and "/": cursor c
parseClosingTagName(s, id) ==
    With(skipWhitespace(s, id.cur), LAMBDA c : parseClosingTagEnd(s, id, c))

\* parseClosingTag, entered at cursor c: [kind, err, tag, cur]
parseClosingTag(s, c) ==
    IF peek(s, c) # "<"
    THEN [kind |-> "err", err |-> <<"e","x","p","e","c","t","e","d"," ","'","<","'">>, cur |-> c]
    ELSE IF peek(s, advance(s, c)) # "/"
    THEN [kind |-> "err", err |-> <<"e","x","p","e","c","t","e","d"," ","'","/","'">>, cur |-> advance(s, c)]
    ELSE With(parseIdentifier(s, advance(s, advance(s, c))),
              LAMBDA id : parseClosingTagName(s, id))

\* one attribute of parseTag's attribute loop, its name id read: [attrs, cur]
parseAttribute(s, attrs, id, c) ==
    IF peek(s, c) = "="
    THEN With(parseAttributeValue(s, skipWhitespace(s, advance(s, c))),
              LAMBDA av : [attrs |-> SetAttr(attrs, id.val, av.val),
                           cur |-> skipWhitespace(s, av.cur)])
    ELSE [attrs |-> SetAttr(attrs, id.val, <<"t","r","u","e">>), cur |-> skipWhitespace(s, c)]

\* the attribute loop of parseTag: [attrs, cur]
parseAttributes(s, c) ==
    LET RECURSIVE go(_), named(_, _)
        named(at, id) ==
            IF id.val = <<>> THEN [attrs |-> at.attrs, cur |-> id.cur]
            ELSE With(parseAttribute(s, at.attrs, id, skipWhitespace(s, id.cur)),
                      LAMBDA at1 : go(at1))
        go(at) ==
            IF peek(s, at.cur) # ">" /\ peek(s, at.cur) # "/" /\ at.cur.position < Len(s)
            THEN With(parseIdentifier(s, at.cur), LAMBDA id : named(at, id))
            ELSE at
    IN go([attrs |-> NoAttributes, cur |-> c])

\* the Line and Column parseTag stores in a tag whose name ends at cursor c
TagPosition(c) == [Line |-> c.line, Column |-> c.column]

\* the tag parseTag builds from the name id and the attributes at
NewTag(id, at) ==
    [Name |-> id.val, Attributes |-> at.attrs, Content |-> <<>>, Children |-> <<>>,
     Line |-> TagPosition(id.cur).Line, Column |-> TagPosition(id.cur).Column]

\* parseTag after "<name attributes /", the "/" consumed: cursor c
parseTagSelfClosing(s, tag, c) ==
    IF peek(s, c) # ">"
    THEN [kind |-> "err", err |-> ErrExpectedGtAfterSlash(c), cur |-> c]
    ELSE [kind |-> "tag", tag |-> tag, cur |-> advance(s, c)]

\* parseTag after the attributes at of the tag named id
parseTagEnd(s, id, at) ==
    IF peek(s, at.cur) = "/"
    THEN With(NewTag(id, at), LAMBDA tag : parseTagSelfClosing(s, tag, advance(s, at.cur)))
    ELSE IF peek(s, at.cur) # ">"
    THEN [kind |-> "err", err |-> ErrExpectedGt(at.cur), cur |-> at.cur]
    ELSE [kind |-> "open", tag |-> NewTag(id, at), tagName |-> id.val,
          cur |-> advance(s, at.cur)]

\* parseTag after the tag name id
parseTagName(s, id) ==
    IF id.val = <<>>
    THEN [kind |-> "err", err |-> ErrExpectedTagName(id.cur), cur |-> id.cur]
    ELSE With(parseAttributes(s, skipWhitespace(s, id.cur)),
              LAMBDA at : parseTagEnd(s, id, at))

\* parseTag from its entry at cursor c up to the content loop:
\*   [kind |-> "err", err, cur]                the call returned an error
\*   [kind |-> "tag", tag, cur]                the call returned a tag
\*   [kind |-> "open", tag, tagName, cur]      the call is at its content loop
parseTagOpen(s, c) ==
    IF peek(s, c) # "<"
    THEN [kind |-> "err", err |-> ErrExpectedLt(c), cur |-> c]
    ELSE IF peek(s, advance(s, c)) = "/"
    THEN parseClosingTag(s, advance(s, c))
    ELSE With(parseIdentifier(s, advance(s, c)), LAMBDA id : parseTagName(s, id))

---------------------------------------------------------------------------
(* The code generator *)

\* indent: strings.Repeat("  ", p.indentLevel)
indent(level) ==
    LET RECURSIVE go(_)
        go(k) == IF k <= 0 THEN <<>> ELSE <<" "," ">> \o go(k - 1)
    IN go(level)

dangerous == << <<"e","v","a","l","(">>, <<"F","u","n","c","t","i","o","n","(">>, <<"_","_","p","r","o","t","o","_","_">>, <<"c","o","n","s","t","r","u","c","t","o","r">> >>

\* sanitizeExpression: [out, warns], warns being what it appends to p.warnings.
\* No function of the parser calls it.
sanitizeExpression(expr) ==
    LET RECURSIVE go(_, _)
        go(i, acc) ==
            IF i > Len(dangerous) THEN acc
            ELSE IF Contains(ToLower(acc.out), ToLower(dangerous[i]))
            THEN With([out |-> ReplaceAll(acc.out, dangerous[i],
                                          <<"/","*"," ","U","N","S","A","F","E",":"," ">> \o dangerous[i] \o <<" ","*","/">>),
                       warns |-> Append(acc.warns,
                                        <<"p","o","t","e","n","t","i","a","l","l","y"," ","u","n","s","a","f","e"," ","p","a","t","t","e","r","n"," ","d","e","t","e","c","t","e","d",":"," ">>
                                            \o dangerous[i])],
                      LAMBDA next : go(i + 1, next))
            ELSE go(i + 1, acc)
    IN With([out |-> expr, warns |-> <<>>], LAMBDA start : go(1, start))

\* regexp.MatchString("^[a-zA-Z_][a-zA-Z0-9_]*$", name)
MatchIdentifier(name) ==
    LET first(ch) == ch \in Range(Lowers) \/ ch \in Range(Uppers) \/ ch = "_"
        RECURSIVE rest(_)
        rest(i) == IF i > Len(name) THEN TRUE
                   ELSE /\ \/ name[i] \in Range(Lowers)
                           \/ name[i] \in Range(Uppers)
                           \/ name[i] \in Range(Digits)
                           \/ name[i] = "_"
                        /\ rest(i + 1)
    IN Len(name) >= 1 /\ first(name[1]) /\ rest(2)

reserved ==
    << <<"i","f">>, <<"e","l","s","e">>, <<"f","o","r">>, <<"w","h","i","l","e">>, <<"f","u","n","c","t","i","o","n">>, <<"r","e","t","u","r","n">>,
       <<"c","o","n","s","t">>, <<"l","e","t">>, <<"v","a","r">> >>

\* the reserved words compared without regard to letter case
validateIdentifier_AnyCase(name) ==
    IF name = <<>>
    THEN [nil |-> FALSE, msg |-> <<"e","m","p","t","y"," ","i","d","e","n","t","i","f","i","e","r">>]
    ELSE IF ~MatchIdentifier(name)
    THEN [nil |-> FALSE, msg |-> <<"i","n","v","a","l","i","d"," ","i","d","e","n","t","i","f","i","e","r",":"," ">> \o name]
    ELSE IF \E i \in 1..Len(reserved) : ToLower(name) = reserved[i]
    THEN [nil |-> FALSE, msg |-> <<"'">> \o name \o <<"'"," ","i","s"," ","a"," ","r","e","s","e","r","v","e","d"," ","k","e","y","w","o","r","d">>]
    ELSE [nil |-> TRUE, msg |-> <<>>]

\* validateIdentifier: [nil |-> TRUE] or [nil |-> FALSE, msg |-> the error's text]
validateIdentifier(name) ==
    IF name = <<>>
    THEN [nil |-> FALSE, msg |-> <<"e","m","p","t","y"," ","i","d","e","n","t","i","f","i","e","r">>]
    ELSE IF ~MatchIdentifier(name)
    THEN [nil |-> FALSE, msg |-> <<"i","n","v","a","l","i","d"," ","i","d","e","n","t","i","f","i","e","r",":"," ">> \o name]
    ELSE IF \E i \in 1..Len(reserved) : name = reserved[i]
    THEN [nil |-> FALSE, msg |-> <<"'">> \o name \o <<"'"," ","i","s"," ","a"," ","r","e","s","e","r","v","e","d"," ","k","e","y","w","o","r","d">>]
    ELSE [nil |-> TRUE, msg |-> <<>>]

\* indentBlock without the p.indentLevel-- after the indentation is computed
indentBlock_LeavesDeeper(block, level) ==
    LET up == level + 1
        ind == indent(up)
        indented(lines) == [i \in 1..Len(lines) |->
                              IF TrimSpace(lines[i]) # <<>> THEN ind \o lines[i] ELSE <<>>]
    IN With(Split(block, "\n"), LAMBDA lines :
         With(indented(lines), LAMBDA ls :
           [out |-> Join(ls, <<"\n">>), level |-> up]))

\* indentBlock at indentation depth level: [out, level], level being the depth
\* it leaves behind
indentBlock(block, level) ==
    LET up == level + 1
        ind == indent(up)
        down == up - 1
        indented(lines) == [i \in 1..Len(lines) |->
                              IF TrimSpace(lines[i]) # <<>> THEN ind \o lines[i] ELSE <<>>]
    IN With(Split(block, "\n"), LAMBDA lines :
         With(indented(lines), LAMBDA ls :
           [out |-> Join(ls, <<"\n">>), level |-> down]))

\* what a transpile function hands back: its text, and what it appended to
\* p.errors and p.warnings and put into p.scopeVars
Emit(out) == [out |-> out, errs |-> <<>>, warns |-> <<>>, vars |-> {}]

\* "<head> {\n<indented body>\n<indent>}"
Block(head, body, level) ==
    With(body, LAMBDA block :
        indent(level) \o head \o <<" ","{","\n">> \o indentBlock(block, level).out \o <<"\n">>
            \o indent(level) \o <<"}">>)

transpilePrint(tag, lang, level) ==
    Emit(indent(level) \o <<"c","o","n","s","o","l","e",".","l","o","g","(">> \o TrimSpace(tag.Content) \o <<")",";">>)

\* the error entry transpileVariable appends for a name validateIdentifier rejects
VariableError(msg) == msg

\* every declaration made with let
VariableKeyword_AlwaysLet(tagName) == <<"l","e","t">>

\* the keyword transpileVariable declares with
VariableKeyword(tagName) ==
    IF tagName = <<"c","o","n","s","t">> THEN <<"c","o","n","s","t">>
    ELSE IF tagName = <<"v","a","r">> THEN <<"v","a","r">>
    ELSE <<"l","e","t">>

transpileVariable(tag, lang, level) ==
    LET parts == SplitN2(tag.Content, "=")
        fromContent == Attr(tag, <<"n","a","m","e">>) = <<>> /\ tag.Content # <<>> /\ Len(parts) = 2
        name == IF fromContent THEN TrimSpace(parts[1]) ELSE Attr(tag, <<"n","a","m","e">>)
        value == IF fromContent THEN TrimSpace(parts[2]) ELSE Attr(tag, <<"v","a","l","u","e">>)
        varType == Attr(tag, <<"t","y","p","e">>)
        v == validateIdentifier(name)
        keyword == VariableKeyword(tag.Name)
    IN IF ~v.nil
       THEN [out |-> <<"/","*"," ","I","n","v","a","l","i","d"," ","v","a","r","i","a","b","l","e",":"," ">> \o v.msg \o <<" ","*","/">>,
             errs |-> <<VariableError(v.msg)>>, warns |-> <<>>, vars |-> {}]
       ELSE [out |-> IF lang = "typescript" /\ varType # <<>>
                     THEN indent(level) \o keyword \o <<" ">> \o name \o <<":"," ">> \o varType
                              \o <<" ","="," ">> \o value \o <<";">>
                     ELSE indent(level) \o keyword \o <<" ">> \o name \o <<" ","="," ">> \o value
                              \o <<";">>,
             errs |-> <<>>, warns |-> <<>>, vars |-> {name}]

transpileFunction(tag, lang, level) ==
    LET name == Attr(tag, <<"n","a","m","e">>)
        params == Attr(tag, <<"p","a","r","a","m","s">>)
        returnType == Attr(tag, <<"r","e","t","u","r","n","s">>)
        asyncKeyword == IF Attr(tag, <<"a","s","y","n","c">>) = <<"t","r","u","e">> THEN <<"a","s","y","n","c"," ">> ELSE <<>>
        v == validateIdentifier(name)
        body == TrimSpace(tag.Content)
        head == asyncKeyword \o <<"f","u","n","c","t","i","o","n"," ">> \o name \o <<"(">> \o params \o <<")">>
    IN IF ~v.nil
       THEN [out |-> <<"/","*"," ","I","n","v","a","l","i","d"," ","f","u","n","c","t","i","o","n",":"," ">> \o v.msg \o <<" ","*","/">>,
             errs |-> << <<"i","n","v","a","l","i","d"," ","f","u","n","c","t","i","o","n"," ","n","a","m","e",":"," ">> \o v.msg >>,
             warns |-> <<>>, vars |-> {}]
       ELSE IF lang = "typescript" /\ returnType # <<>>
       THEN Emit(Block(head \o <<":"," ">> \o returnType, body, level))
       ELSE Emit(Block(head, body, level))

\* the counted form chosen before the for-of form
transpileLoop_TimesFirst(tag, lang, level) ==
    LET variable == Attr(tag, <<"v","a","r">>)
        from == Attr(tag, <<"f","r","o","m">>)
        to == Attr(tag, <<"t","o">>)
        step == IF Attr(tag, <<"s","t","e","p">>) = <<>> THEN <<"1">> ELSE Attr(tag, <<"s","t","e","p">>)
        items == Attr(tag, <<"i","n">>)
        times == Attr(tag, <<"t","i","m","e","s">>)
        body == TrimSpace(tag.Content)
        item == IF variable = <<>> THEN <<"i","t","e","m">> ELSE variable
        i == IF variable = <<>> THEN <<"i">> ELSE variable
    IN IF times # <<>>
       THEN Emit(Block(<<"f","o","r"," ","(","l","e","t"," ">> \o i \o <<" ","="," ","0",";"," ">> \o i \o <<" ","<"," ">> \o times \o <<";"," ">>
                           \o i \o <<"+","+",")">>, body, level))
       ELSE IF items # <<>>
       THEN Emit(Block(<<"f","o","r"," ","(","c","o","n","s","t"," ">> \o item \o <<" ","o","f"," ">> \o items \o <<")">>, body, level))
       ELSE IF from # <<>> /\ to # <<>>
       THEN Emit(Block(<<"f","o","r"," ","(","l","e","t"," ">> \o i \o <<" ","="," ">> \o from \o <<";"," ">> \o i \o <<" ","<"," ">> \o to
                           \o <<";"," ">> \o i \o <<" ","+","="," ">> \o step \o <<")">>, body, level))
       ELSE Emit(indent(level) \o <<"/","*"," ","I","n","v","a","l","i","d"," ","l","o","o","p"," ","c","o","n","f","i","g","u","r","a","t","i","o","n"," ","*","/">>)

transpileLoop(tag, lang, level) ==
    LET variable == Attr(tag, <<"v","a","r">>)
        from == Attr(tag, <<"f","r","o","m">>)
        to == Attr(tag, <<"t","o">>)
        step == IF Attr(tag, <<"s","t","e","p">>) = <<>> THEN <<"1">> ELSE Attr(tag, <<"s","t","e","p">>)
        items == Attr(tag, <<"i","n">>)
        times == Attr(tag, <<"t","i","m","e","s">>)
        body == TrimSpace(tag.Content)
        item == IF variable = <<>> THEN <<"i","t","e","m">> ELSE variable
        i == IF variable = <<>> THEN <<"i">> ELSE variable
    IN IF items # <<>>
       THEN Emit(Block(<<"f","o","r"," ","(","c","o","n","s","t"," ">> \o item \o <<" ","o","f"," ">> \o items \o <<")">>, body, level))
       ELSE IF times # <<>>
       THEN Emit(Block(<<"f","o","r"," ","(","l","e","t"," ">> \o i \o <<" ","="," ","0",";"," ">> \o i \o <<" ","<"," ">> \o times \o <<";"," ">>
                           \o i \o <<"+","+",")">>, body, level))
       ELSE IF from # <<>> /\ to # <<>>
       THEN Emit(Block(<<"f","o","r"," ","(","l","e","t"," ">> \o i \o <<" ","="," ">> \o from \o <<";"," ">> \o i \o <<" ","<"," ">> \o to
                           \o <<";"," ">> \o i \o <<" ","+","="," ">> \o step \o <<")">>, body, level))
       ELSE Emit(indent(level) \o <<"/","*"," ","I","n","v","a","l","i","d"," ","l","o","o","p"," ","c","o","n","f","i","g","u","r","a","t","i","o","n"," ","*","/">>)

transpileWhile(tag, lang, level) ==
    LET condition == IF Attr(tag, <<"c","o","n","d","i","t","i","o","n">>) = <<>> THEN <<"t","r","u","e">>
                     ELSE Attr(tag, <<"c","o","n","d","i","t","i","o","n">>)
    IN Emit(Block(<<"w","h","i","l","e"," ","(">> \o condition \o <<")">>, TrimSpace(tag.Content), level))

transpileIf(tag, lang, level) ==
    LET condition == IF Attr(tag, <<"c","o","n","d","i","t","i","o","n">>) = <<>> /\ tag.Content # <<>>
                     THEN TrimSpace(SplitN2(tag.Content, "\n")[1])
                     ELSE Attr(tag, <<"c","o","n","d","i","t","i","o","n">>)
    IN Emit(Block(<<"i","f"," ","(">> \o condition \o <<")">>, TrimSpace(tag.Content), level))

transpileElse(tag, lang, level) ==
    Emit(Block(<<"e","l","s","e">>, TrimSpace(tag.Content), level))

transpileClass(tag, lang, level) ==
    LET name == Attr(tag, <<"n","a","m","e">>)
        extends == Attr(tag, <<"e","x","t","e","n","d","s">>)
        v == validateIdentifier(name)
        body == TrimSpace(tag.Content)
    IN IF ~v.nil
       THEN [out |-> <<"/","*"," ","I","n","v","a","l","i","d"," ","c","l","a","s","s",":"," ">> \o v.msg \o <<" ","*","/">>,
             errs |-> << <<"i","n","v","a","l","i","d"," ","c","l","a","s","s"," ","n","a","m","e",":"," ">> \o v.msg >>,
             warns |-> <<>>, vars |-> {}]
       ELSE IF extends # <<>>
       THEN Emit(Block(<<"c","l","a","s","s"," ">> \o name \o <<" ","e","x","t","e","n","d","s"," ">> \o extends, body, level))
       ELSE Emit(Block(<<"c","l","a","s","s"," ">> \o name, body, level))

transpileMethod(tag, lang, level) ==
    LET name == Attr(tag, <<"n","a","m","e">>)
        params == Attr(tag, <<"p","a","r","a","m","s">>)
        returnType == Attr(tag, <<"r","e","t","u","r","n","s">>)
        staticKeyword == IF Attr(tag, <<"s","t","a","t","i","c">>) = <<"t","r","u","e">> THEN <<"s","t","a","t","i","c"," ">> ELSE <<>>
        body == TrimSpace(tag.Content)
        head == staticKeyword \o name \o <<"(">> \o params \o <<")">>
    IN IF lang = "typescript" /\ returnType # <<>>
       THEN Emit(Block(head \o <<":"," ">> \o returnType, body, level))
       ELSE Emit(Block(head, body, level))

transpileImport(tag, lang, level) ==
    LET module == Attr(tag, <<"f","r","o","m">>)
        items == Attr(tag, <<"i","t","e","m","s">>)
    IN IF items # <<>>
       THEN Emit(indent(level) \o <<"i","m","p","o","r","t"," ","{"," ">> \o items \o <<" ","}"," ","f","r","o","m"," ","'">> \o module \o <<"'",";">>)
       ELSE Emit(indent(level) \o <<"i","m","p","o","r","t"," ","'">> \o module \o <<"'",";">>)

transpileExport(tag, lang, level) ==
    LET name == Attr(tag, <<"n","a","m","e">>)
        body == TrimSpace(tag.Content)
    IN IF Attr(tag, <<"d","e","f","a","u","l","t">>) = <<"t","r","u","e">>
       THEN Emit(indent(level) \o <<"e","x","p","o","r","t"," ","d","e","f","a","u","l","t"," ">> \o body)
       ELSE IF name # <<>>
       THEN Emit(indent(level) \o <<"e","x","p","o","r","t"," ","c","o","n","s","t"," ">> \o name \o <<" ","="," ">> \o body \o <<";">>)
       ELSE Emit(indent(level) \o <<"e","x","p","o","r","t"," ">> \o body)

transpileReturn(tag, lang, level) ==
    LET value == IF TrimSpace(tag.Content) = <<>> THEN Attr(tag, <<"v","a","l","u","e">>)
                 ELSE TrimSpace(tag.Content)
    IN Emit(indent(level) \o <<"r","e","t","u","r","n"," ">> \o value \o <<";">>)

transpileArray(tag, lang, level) ==
    Emit(<<"[">> \o Attr(tag, <<"i","t","e","m","s">>) \o <<"]">>)

transpileObject(tag, lang, level) ==
    Emit(<<"{"," ">> \o TrimSpace(tag.Content) \o <<" ","}">>)

transpileTry(tag, lang, level) ==
    Emit(Block(<<"t","r","y">>, TrimSpace(tag.Content), level))

transpileCatch(tag, lang, level) ==
    LET errorVar == IF Attr(tag, <<"e","r","r","o","r">>) = <<>> THEN <<"e">> ELSE Attr(tag, <<"e","r","r","o","r">>)
    IN Emit(Block(<<"c","a","t","c","h"," ","(">> \o errorVar \o <<")">>, TrimSpace(tag.Content), level))

transpileComment(tag, lang, level) ==
    Emit(indent(level) \o <<"/","/"," ">> \o TrimSpace(tag.Content))

transpileAsync(tag, lang, level) ==
    Emit(Block(<<"a","s","y","n","c"," ","(",")"," ","=",">">>, TrimSpace(tag.Content), level))

transpileAwait(tag, lang, level) ==
    Emit(indent(level) \o <<"a","w","a","i","t"," ">> \o TrimSpace(tag.Content))

transpileSwitch(tag, lang, level) ==
    Emit(Block(<<"s","w","i","t","c","h"," ","(">> \o Attr(tag, <<"o","n">>) \o <<")">>, TrimSpace(tag.Content), level))

transpileCase(tag, lang, level) ==
    Emit(indent(level) \o <<"c","a","s","e"," ">> \o Attr(tag, <<"v","a","l","u","e">>) \o <<":","\n">>
            \o indentBlock(TrimSpace(tag.Content), level).out)

transpileBreak(tag, lang, level) == Emit(indent(level) \o <<"b","r","e","a","k",";">>)

transpileContinue(tag, lang, level) == Emit(indent(level) \o <<"c","o","n","t","i","n","u","e",";">>)

\* an unknown tag recorded as an error
transpileUnknown_RecordsError(tag, lang, level) ==
    [out |-> <<"/","*"," ","U","n","k","n","o","w","n"," ","t","a","g",":"," ","<">> \o tag.Name \o <<">"," ","*","/","\n">> \o tag.Content,
     errs |-> << <<"u","n","k","n","o","w","n"," ","t","a","g",":"," ","<">> \o tag.Name \o <<">">> >>,
     warns |-> <<>>,
     vars |-> {}]

\* the default case of transpileTag's switch
transpileUnknown(tag, lang, level) ==
    [out |-> <<"/","*"," ","U","n","k","n","o","w","n"," ","t","a","g",":"," ","<">> \o tag.Name \o <<">"," ","*","/","\n">> \o tag.Content,
     errs |-> <<>>,
     warns |-> << <<"u","n","k","n","o","w","n"," ","t","a","g",":"," ","<">> \o tag.Name \o <<">">> >>,
     vars |-> {}]

\* the name transpileTag switches on
DispatchName(tagName) == ToLower(tagName)

transpileTag(tag, lang, level) ==
    LET n == DispatchName(tag.Name)
    IN CASE n \in { <<"p","r","i","n","t">>, <<"l","o","g">>, <<"c","o","n","s","o","l","e">> } -> transpilePrint(tag, lang, level)
         [] n \in { <<"v","a","r">>, <<"l","e","t">>, <<"c","o","n","s","t">>, <<"v","a","r","i","a","b","l","e">> } ->
                transpileVariable(tag, lang, level)
         [] n \in { <<"f","u","n","c","t","i","o","n">>, <<"f","u","n","c">>, <<"f","n">> } -> transpileFunction(tag, lang, level)
         [] n \in { <<"l","o","o","p">>, <<"f","o","r">>, <<"f","o","r","e","a","c","h">>, <<"r","e","p","e","a","t">> } ->
                transpileLoop(tag, lang, level)
         [] n = <<"w","h","i","l","e">> -> transpileWhile(tag, lang, level)
         [] n \in { <<"i","f">>, <<"c","o","n","d","i","t","i","o","n">> } -> transpileIf(tag, lang, level)
         [] n = <<"e","l","s","e">> -> transpileElse(tag, lang, level)
         [] n \in { <<"e","x","t","e","n","d">>, <<"c","l","a","s","s">> } -> transpileClass(tag, lang, level)
         [] n = <<"m","e","t","h","o","d">> -> transpileMethod(tag, lang, level)
         [] n \in { <<"i","m","p","o","r","t">>, <<"r","e","q","u","i","r","e">>, <<"u","s","e">> } -> transpileImport(tag, lang, level)
         [] n = <<"e","x","p","o","r","t">> -> transpileExport(tag, lang, level)
         [] n = <<"r","e","t","u","r","n">> -> transpileReturn(tag, lang, level)
         [] n \in { <<"a","r","r","a","y">>, <<"l","i","s","t">> } -> transpileArray(tag, lang, level)
         [] n \in { <<"o","b","j","e","c","t">>, <<"d","i","c","t">>, <<"m","a","p">> } -> transpileObject(tag, lang, level)
         [] n = <<"t","r","y">> -> transpileTry(tag, lang, level)
         [] n = <<"c","a","t","c","h">> -> transpileCatch(tag, lang, level)
         [] n = <<"c","o","m","m","e","n","t">> -> transpileComment(tag, lang, level)
         [] n = <<"a","s","y","n","c">> -> transpileAsync(tag, lang, level)
         [] n = <<"a","w","a","i","t">> -> transpileAwait(tag, lang, level)
         [] n \in { <<"s","w","i","t","c","h">>, <<"m","a","t","c","h">> } -> transpileSwitch(tag, lang, level)
         [] n = <<"c","a","s","e">> -> transpileCase(tag, lang, level)
         [] n = <<"b","r","e","a","k">> -> transpileBreak(tag, lang, level)
         [] n = <<"c","o","n","t","i","n","u","e">> -> transpileContinue(tag, lang, level)
         [] OTHER -> transpileUnknown(tag, lang, level)

---------------------------------------------------------------------------
(* The emoji pass *)

emojiMap ==
    << [emoji |-> <<"U+1F4BE">>, keyword |-> <<"v","a","r">>],
       [emoji |-> <<"U+1F512">>, keyword |-> <<"c","o","n","s","t">>],
       [emoji |-> <<"U+1F4DD">>, keyword |-> <<"l","o","g">>],
       [emoji |-> <<"U+1F522">>, keyword |-> <<"n","u","m","b","e","r">>],
       [emoji |-> <<"U+1F4CA">>, keyword |-> <<"a","r","r","a","y">>],
       [emoji |-> <<"U+1F4E6">>, keyword |-> <<"o","b","j","e","c","t">>],
       [emoji |-> <<"U+26A1">>, keyword |-> <<"f","u","n","c","t","i","o","n">>],
       [emoji |-> <<"U+1F501">>, keyword |-> <<"l","o","o","p">>],
       [emoji |-> <<"U+2753">>, keyword |-> <<"i","f">>],
       [emoji |-> <<"U+2705">>, keyword |-> <<"t","r","u","e">>],
       [emoji |-> <<"U+274C">>, keyword |-> <<"f","a","l","s","e">>],
       [emoji |-> <<"U+2795">>, keyword |-> <<"+">>],
       [emoji |-> <<"U+2796">>, keyword |-> <<"-">>],
       [emoji |-> <<"U+2716", "U+FE0F">>, keyword |-> <<"*">>],
       [emoji |-> <<"U+2797">>, keyword |-> <<"/">>] >>

\* no emoji of the map overlaps another, so the order of the map's iteration
\* does not show in the result
convertEmojisToKeywords(s) ==
    LET RECURSIVE go(_, _)
        \* result after the entries i.. of the map have been replaced in acc
        go(i, acc) ==
            IF i > Len(emojiMap) THEN acc
            ELSE CHOOSE r \in {go(i + 1, replaced) :
                                 replaced \in {ReplaceAll(acc, emojiMap[i].emoji,
                                                           emojiMap[i].keyword)}} : TRUE
    IN go(1, s)

---------------------------------------------------------------------------
(* The documents the parser is run on *)

MaxPieces == 3

Pieces ==
    { <<"<","i","f",">">>, <<"<","/","i","f",">">>, <<"<","b",">">>, <<"<","/","b",">">>, <<"<","v","a","r","/",">">>,
      <<"x">>, <<" ">>, <<"\n">>, <<"<">> }

Documents(n) ==
    LET D[k \in 0..n] ==
            IF k = 0 THEN {<<>>}
            ELSE D[k - 1] \cup {d \o p : d \in D[k - 1], p \in Pieces}
    IN D[n]

Examples ==
    { <<"<","v","a","r"," ","n","a","m","e","=","\"","x","\""," ","v","a","l","u","e","=","\"","5","\"","/",">">>,
      <<"<","c","o","n","s","t"," ","n","a","m","e","=","\"","i","f","\""," ","v","a","l","u","e","=","\"","1","\"","/",">">>,
      <<"<","C","O","N","S","T"," ","n","a","m","e","=","\"","x","\""," ","v","a","l","u","e","=","\"","1","\"","/",">">>,
      <<"<","l","e","t"," ","n","a","m","e","=","\"","y","1","\""," ","t","y","p","e","=","\"","n","u","m","b","e","r","\""," ","v","a","l","u","e","=","\"","2","\"","/",">">>,
      <<"<","v","a","r",">","x"," ","="," ","5","<","/","v","a","r",">">>,
      <<"<","p","r","i","n","t",">","\"","H","e","l","l","o","\"","<","/","p","r","i","n","t",">">>,
      <<"<","P","r","i","n","t",">","1","<","/","P","r","i","n","t",">">>,
      <<"<","P","R","I","N","T",">","1","<","/","p","r","i","n","t",">">>,
      <<"<","f","u","n","c","t","i","o","n"," ","n","a","m","e","=","\"","f","\"",">">>,
      <<"x","\n"," "," ","<","f","u","n","c","t","i","o","n"," ","n","a","m","e","=","\"","f","\"",">">>,
      <<"<","d","i","v",">","<","s","p","a","n",">","x","<","/","d","i","v",">","<","/","s","p","a","n",">">>,
      <<"<","i","f"," ","c","o","n","d","i","t","i","o","n","=","\"","x",">","1","\"",">","<","p","r","i","n","t",">","1","<","/","p","r","i","n","t",">","<","/","i","f",">">>,
      <<"<","b",">","x","<","/","b">>,
      <<"<","b",">","<","i","f">>,
      <<"<","p","r","i","n","t",">","e","v","a","l","(","x",")","<","/","p","r","i","n","t",">">>,
      <<"<","t","r","y",">","<","f","n","/",">","<","l","o","g",">","1","<","/","l","o","g",">","<","/","t","r","y",">","<","l","o","g",">","2","<","/","l","o","g",">">>,
      <<"<","i","f"," ","c","o","n","d","i","t","i","o","n","=","\"","a","\"",">","<","i","f",">","x","<","/","i","f",">","<","/","i","f",">">>,
      <<"<","a","r","r","a","y",">","1",","," ","2","<","/","a","r","r","a","y",">">>,
      <<"<","l","i","s","t"," ","i","t","e","m","s","=","\"","1",","," ","2","\"",">","3","<","/","l","i","s","t",">">>,
      <<"U+1F4BE">> \o <<" ","x">>,
      <<"\f">> \o <<"x"," ","="," ","y",";"," ">> }

---------------------------------------------------------------------------
(* Parse, one action for each step of its loops *)

Cur == [position |-> position, line |-> line, column |-> column]

\* the parser's cursor becomes c
MoveTo(c) ==
    /\ position' = c.position
    /\ line' = c.line
    /\ column' = c.column

Top == stack[Len(stack)]

Frame(open, at) ==
    [tag |-> open.tag, tagName |-> open.tagName, content |-> <<>>,
     startPos |-> open.cur.position, ltPos |-> at]

\* the nested tag's text put in front of the parent's content
TagTranspiled_TextInFront(tag, rest, t) ==
    /\ returned' = Append(returned, tag)
    /\ errors' = errors \o t.errs
    /\ warnings' = warnings \o t.warns
    /\ scopeVars' = scopeVars \cup t.vars
    /\ IF rest = <<>>
       THEN /\ result' = result \o t.out \o <<"\n">>
            /\ stack' = <<>>
            /\ pc' = "scan"
       ELSE /\ result' = result
            /\ stack' = [rest EXCEPT ![Len(rest)] =
                            [@ EXCEPT !.tag.Children = Append(@, tag),
                                      !.content = t.out \o @]]
            /\ pc' = "content"
    /\ UNCHANGED <<callErr>>

\* a tag whose transpilation records an error ends the rendering of the tags
\* around it
TagTranspiled_StopsOnError(tag, rest, t) ==
    /\ returned' = Append(returned, tag)
    /\ errors' = errors \o t.errs
    /\ warnings' = warnings \o t.warns
    /\ scopeVars' = scopeVars \cup t.vars
    /\ IF rest = <<>>
       THEN /\ result' = result \o t.out \o <<"\n">>
            /\ stack' = <<>>
            /\ pc' = "scan"
       ELSE IF t.errs # <<>>
       THEN /\ result' = result
            /\ stack' = <<>>
            /\ pc' = "scan"
       ELSE /\ result' = result
            /\ stack' = [rest EXCEPT ![Len(rest)] =
                            [@ EXCEPT !.tag.Children = Append(@, tag),
                                      !.content = @ \o t.out]]
            /\ pc' = "content"
    /\ UNCHANGED <<callErr>>

\* parseTag returned tag to its caller, which transpiled it to t: the caller is
\* Parse when rest is empty, and else the parseTag activation on top of rest
TagTranspiled(tag, rest, t) ==
    /\ returned' = Append(returned, tag)
    /\ errors' = errors \o t.errs
    /\ warnings' = warnings \o t.warns
    /\ scopeVars' = scopeVars \cup t.vars
    /\ IF rest = <<>>
       THEN /\ result' = result \o t.out \o <<"\n">>
            /\ stack' = <<>>
            /\ pc' = "scan"
       ELSE /\ result' = result
            /\ stack' = [rest EXCEPT ![Len(rest)] =
                            [@ EXCEPT !.tag.Children = Append(@, tag),
                                      !.content = @ \o t.out]]
            /\ pc' = "content"
    /\ UNCHANGED <<callErr>>

TagReturned(tag, rest) ==
    \E t \in {transpileTag(tag, targetLang, indentLevel)} : TagTranspiled(tag, rest, t)

\* parseTag returned err, which every enclosing parseTag hands on to Parse
TagFailed(err) ==
    /\ callErr' = err
    /\ stack' = <<>>
    /\ pc' = "failed"
    /\ UNCHANGED <<errors, warnings, scopeVars, result, returned>>

\* parseTag, called at the cursor, got as far as r
ParseTagCalled(r) ==
    /\ MoveTo(r.cur)
    /\ CASE r.kind = "err" -> TagFailed(r.err)
         [] r.kind = "tag" -> TagReturned(r.tag, stack)
         [] r.kind = "open" ->
              /\ stack' = Append(stack, Frame(r, position))
              /\ pc' = "content"
              /\ UNCHANGED <<errors, warnings, scopeVars, result, returned, callErr>>

CallParseTag == \E r \in {parseTagOpen(input, Cur)} : ParseTagCalled(r)

\* the test without strings.TrimSpace
IsBlank_EmptyOnly(s) == s = <<>>

\* Parse's test for an input with nothing in it
IsBlank(s) == TrimSpace(s) = <<>>

ParseEmpty ==
    /\ pc = "start"
    /\ IsBlank(input)
    /\ ret' = [out |-> <<>>, failed |-> TRUE, err |-> <<"e","m","p","t","y"," ","i","n","p","u","t">>]
    /\ pc' = "done"
    /\ UNCHANGED <<source, input, position, line, column, errors, warnings, targetLang,
                   indentLevel, scopeVars, result, stack, callErr, returned, iterPos>>
    /\ UNCHANGED outside

ParseBegin ==
    /\ pc = "start"
    /\ ~IsBlank(input)
    /\ input' = convertEmojisToKeywords(input)
    /\ pc' = "scan"
    /\ UNCHANGED <<source, position, line, column, errors, warnings, targetLang,
                   indentLevel, scopeVars, result, stack, callErr, ret, returned, iterPos>>
    /\ UNCHANGED outside

ScanTag ==
    /\ pc = "scan"
    /\ position < Len(input)
    /\ peek(input, Cur) = "<"
    /\ iterPos' = position
    /\ CallParseTag
    /\ UNCHANGED <<source, input, targetLang, indentLevel, ret>>
    /\ UNCHANGED outside

\* Parse's handling of a parseTag error
ScanTagFailed ==
    /\ pc = "failed"
    /\ errors' = Append(errors, callErr)
    /\ MoveTo(advance(input, Cur))
    /\ pc' = "scan"
    /\ UNCHANGED <<source, input, warnings, targetLang, indentLevel, scopeVars, result,
                   stack, callErr, ret, returned, iterPos>>
    /\ UNCHANGED outside

ScanRawCode ==
    /\ pc = "scan"
    /\ position < Len(input)
    /\ peek(input, Cur) # "<"
    /\ ~isWhitespace(peek(input, Cur))
    /\ \E raw \in {parseRawCode(input, Cur)} :
          /\ MoveTo(raw.cur)
          /\ result' = result \o raw.val \o <<"\n">>
    /\ iterPos' = position
    /\ UNCHANGED <<source, input, errors, warnings, targetLang, indentLevel, scopeVars,
                   stack, pc, callErr, ret, returned>>
    /\ UNCHANGED outside

ScanWhitespace ==
    /\ pc = "scan"
    /\ position < Len(input)
    /\ peek(input, Cur) # "<"
    /\ isWhitespace(peek(input, Cur))
    /\ MoveTo(advance(input, Cur))
    /\ iterPos' = position
    /\ UNCHANGED <<source, input, errors, warnings, targetLang, indentLevel, scopeVars,
                   result, stack, pc, callErr, ret, returned>>
    /\ UNCHANGED outside

\* the messages joined with ", "
ParseError_CommaJoined(errs) == <<"p","a","r","s","i","n","g"," ","e","r","r","o","r","s",":"," ">> \o Join(errs, <<","," ">>)

\* the error Parse returns when errors were recorded
ParseError(errs) == <<"p","a","r","s","i","n","g"," ","e","r","r","o","r","s",":"," ">> \o Join(errs, <<";"," ">>)

\* Parse returning nil while one error is recorded
ParseResult_NilWithOneError(out, errs) ==
    IF Len(errs) > 1
    THEN [out |-> out, failed |-> TRUE, err |-> ParseError(errs)]
    ELSE [out |-> out, failed |-> FALSE, err |-> <<>>]

\* what Parse returns after its loop: failed is "the error is not nil"
ParseResult(out, errs) ==
    IF Len(errs) > 0
    THEN [out |-> out, failed |-> TRUE, err |-> ParseError(errs)]
    ELSE [out |-> out, failed |-> FALSE, err |-> <<>>]

ParseReturn ==
    /\ pc = "scan"
    /\ position >= Len(input)
    /\ ret' = ParseResult(result, errors)
    /\ pc' = "done"
    /\ UNCHANGED <<source, input, position, line, column, errors, warnings, targetLang,
                   indentLevel, scopeVars, result, stack, callErr, returned, iterPos>>
    /\ UNCHANGED outside

\* the end of the input taken as the close of the tag
ContentUnclosed_ReturnsTag ==
    /\ pc = "content"
    /\ position >= Len(input)
    /\ \E closed \in {[Top.tag EXCEPT !.Content = TrimSpace(Top.content)]} :
          TagReturned(closed, SubSeq(stack, 1, Len(stack) - 1))
    /\ UNCHANGED <<source, input, position, line, column, targetLang, indentLevel, ret,
                   iterPos>>
    /\ UNCHANGED outside

\* the content loop ran out of input
ContentUnclosed ==
    /\ pc = "content"
    /\ position >= Len(input)
    /\ position' = Top.startPos
    /\ TagFailed(ErrUnclosed(Top.tagName, Top.tag.Line, Top.tag.Column))
    /\ UNCHANGED <<source, input, line, column, targetLang, indentLevel, ret, iterPos>>
    /\ UNCHANGED outside

\* the name after the "</" at the cursor
ClosingName == parseIdentifier(input, advance(input, advance(input, Cur)))

AtClosing ==
    /\ pc = "content"
    /\ position < Len(input)
    /\ peek(input, Cur) = "<"
    /\ peekNext(input, Cur) = "/"

\* the closing tag of the tag being scanned, its name read up to cursor c
ClosingTagEnd(c) ==
    IF peek(input, c) # ">"
    THEN /\ MoveTo(c)
         /\ TagFailed(ErrExpectedGtInClosing(c))
    ELSE /\ MoveTo(advance(input, c))
         /\ \E closed \in {[Top.tag EXCEPT !.Content = TrimSpace(Top.content)]} :
               TagReturned(closed, SubSeq(stack, 1, Len(stack) - 1))

\* "</name" of the tag being scanned
ContentClose ==
    /\ AtClosing
    /\ ClosingName.val = Top.tagName
    /\ \E c \in {skipWhitespace(input, ClosingName.cur)} : ClosingTagEnd(c)
    /\ UNCHANGED <<source, input, targetLang, indentLevel, ret, iterPos>>
    /\ UNCHANGED outside

\* "</other" taken as content without the scanner moving on
ContentOtherClose_NoAdvance ==
    /\ AtClosing
    /\ ClosingName.val # Top.tagName
    /\ stack' = [stack EXCEPT ![Len(stack)].content = Append(@, peek(input, Cur))]
    /\ UNCHANGED <<source, input, position, line, column, errors, warnings, targetLang,
                   indentLevel, scopeVars, result, pc, callErr, ret, returned, iterPos>>
    /\ UNCHANGED outside

\* "</other" with the cursor left behind the name that was read
ContentOtherClose_NotRestored ==
    /\ AtClosing
    /\ ClosingName.val # Top.tagName
    /\ stack' = [stack EXCEPT ![Len(stack)].content = Append(@, peek(input, Cur))]
    /\ MoveTo(ClosingName.cur)
    /\ UNCHANGED <<source, input, errors, warnings, targetLang, indentLevel, scopeVars,
                   result, pc, callErr, ret, returned, iterPos>>
    /\ UNCHANGED outside

\* "</other": the position saved at the "<" is restored and the "<" is content
ContentOtherClose ==
    /\ AtClosing
    /\ ClosingName.val # Top.tagName
    /\ stack' = [stack EXCEPT ![Len(stack)].content = Append(@, peek(input, Cur))]
    /\ MoveTo(advance(input, Cur))
    /\ UNCHANGED <<source, input, errors, warnings, targetLang, indentLevel, scopeVars,
                   result, pc, callErr, ret, returned, iterPos>>
    /\ UNCHANGED outside

\* an opening tag of the name being scanned taken as text, so that the next
\* closing tag of that name ends the outer tag
ContentNested_SameNameIsText ==
    /\ pc = "content"
    /\ position < Len(input)
    /\ peek(input, Cur) = "<"
    /\ peekNext(input, Cur) # "/"
    /\ IF parseIdentifier(input, advance(input, Cur)).val = Top.tagName
       THEN /\ stack' = [stack EXCEPT ![Len(stack)].content = Append(@, peek(input, Cur))]
            /\ MoveTo(advance(input, Cur))
            /\ UNCHANGED <<errors, warnings, scopeVars, result, pc, callErr, returned>>
       ELSE CallParseTag
    /\ UNCHANGED <<source, input, targetLang, indentLevel, ret, iterPos>>
    /\ UNCHANGED outside

\* a nested opening tag
ContentNested ==
    /\ pc = "content"
    /\ position < Len(input)
    /\ peek(input, Cur) = "<"
    /\ peekNext(input, Cur) # "/"
    /\ CallParseTag
    /\ UNCHANGED <<source, input, targetLang, indentLevel, ret, iterPos>>
    /\ UNCHANGED outside

ContentChar ==
    /\ pc = "content"
    /\ position < Len(input)
    /\ peek(input, Cur) # "<"
    /\ stack' = [stack EXCEPT ![Len(stack)].content = Append(@, peek(input, Cur))]
    /\ MoveTo(advance(input, Cur))
    /\ UNCHANGED <<source, input, errors, warnings, targetLang, indentLevel, scopeVars,
                   result, pc, callErr, ret, returned, iterPos>>
    /\ UNCHANGED outside

\* no tag: a tag name is never empty
NoTag ==
    [Name |-> <<>>, Attributes |-> NoAttributes, Content |-> <<>>, Children |-> <<>>,
     Line |-> 0, Column |-> 0]

\* nothing is called on its own
ValidateIdle == vName = <<>> /\ validated = <<>>

TranspileIdle == callTag = NoTag /\ callOut = <<>>

\* Parse has not run before
FirstRun == prevRuns = <<>>

\* var cache = &TranspileCache{cache: make(map[string]*CacheEntry)}, no
\* response built yet
NewCache == now = 0 /\ cache = <<>> /\ heap = <<>> /\ used = <<>>

\* the handlers that can run at the same time
Handlers == {1, 2}

NoRequest == [Decodes |-> FALSE, Code |-> <<>>, TargetLanguage |-> <<>>, UseMarkup |-> FALSE]

NoLocal == [useMarkup |-> FALSE, cacheKey |-> <<>>, cached |-> 0, start |-> 0]

\* the nil map
NilMap == [nil |-> TRUE]

\* a TranspileResponse
TranspileResponse(success, output, lang, errs, warns, metadata, usedMarkup) ==
    [Success |-> success, JavaScript |-> <<>>, Output |-> output, TargetLanguage |-> lang,
     Errors |-> errs, Warnings |-> warns, Metadata |-> metadata, UsedMarkup |-> usedMarkup]

\* nothing written to the client yet
NoResponse ==
    [Status |-> 0, Body |-> TranspileResponse(FALSE, <<>>, <<>>, <<>>, <<>>, NilMap, FALSE)]

NoAccess == [obj |-> 0, kind |-> "none"]

\* no request has arrived
NoHandler ==
    /\ rpc = [r \in Handlers |-> "idle"]
    /\ req = [r \in Handlers |-> NoRequest]
    /\ loc = [r \in Handlers |-> NoLocal]
    /\ resp = [r \in Handlers |-> NoResponse]
    /\ access = [r \in Handlers |-> NoAccess]
    /\ readers = {}
    /\ writer = 0
    /\ parsing = 0
    /\ crashed = FALSE

\* no server around the parser
NoServer == build = "none" /\ NewCache /\ pending = <<>> /\ NoHandler

\* null, for error: string | null
Null == <<>>

\* a string s, for error: string | null
Str(s) == <<s>>

\* useEditorStore as create() leaves it, the persisted syntaxMode being mode
NewEditorStore(mode) ==
    [code |-> <<"<","p","r","i","n","t",">","\"","H","e","l","l","o","\"","<","/","p","r","i","n","t",">">>, output |-> <<>>, error |-> Null,
     isTranspiling |-> FALSE, targetLanguage |-> <<"j","a","v","a","s","c","r","i","p","t">>, syntaxMode |-> mode]

\* no page in a browser
NoBrowser ==
    /\ client = "none"
    /\ abortController = 0
    /\ controllers = <<>>
    /\ timers = <<>>
    /\ fetches = <<>>
    /\ store = NewEditorStore("markup")
    /\ settings = [autoTranspile |-> TRUE]
    /\ debounceTimer = 0
    /\ transpiles = <<>>

\* a parser as NewMarkupParser leaves it, for the text src and the flavor lang
NewMarkupParser(src, lang) ==
    /\ source = src
    /\ input = src
    /\ position = 0
    /\ line = 1
    /\ column = 1
    /\ errors = <<>>
    /\ warnings = <<>>
    /\ targetLang = lang
    /\ indentLevel = 0
    /\ scopeVars = {}
    /\ result = <<>>
    /\ stack = <<>>
    /\ pc = "start"
    /\ callErr = <<>>
    /\ ret = [out |-> <<>>, failed |-> FALSE, err |-> <<>>]
    /\ returned = <<>>
    /\ iterPos = -1

Init ==
    /\ \/ \E src \in Documents(MaxPieces) : NewMarkupParser(src, "javascript")
       \/ \E src \in Examples, lang \in {"javascript", "typescript"} :
             NewMarkupParser(src, lang)
    /\ ValidateIdle
    /\ TranspileIdle
    /\ FirstRun
    /\ NoServer
    /\ NoBrowser

Next ==
    \/ ParseEmpty
    \/ ParseBegin
    \/ ScanTag
    \/ ScanTagFailed
    \/ ScanRawCode
    \/ ScanWhitespace
    \/ ParseReturn
    \/ ContentUnclosed
    \/ ContentClose
    \/ ContentOtherClose
    \/ ContentNested
    \/ ContentChar

Spec == Init /\ [][Next]_vars

\* Parse runs on until it returns
FairSpec == Spec /\ WF_vars(Next)

---------------------------------------------------------------------------
(* Parse applied to what Parse returned: a new parser on the output *)

MaxRuns == 2
MaxAgainLen == 16

\* NewMarkupParser(ret.out, targetLang), after Parse returned
ParseAgain ==
    /\ pc = "done"
    /\ Len(prevRuns) < MaxRuns - 1
    /\ Len(ret.out) <= MaxAgainLen
    /\ prevRuns' = Append(prevRuns, [source |-> source, out |-> ret.out,
                                      failed |-> ret.failed])
    /\ source' = ret.out
    /\ input' = ret.out
    /\ position' = 0
    /\ line' = 1
    /\ column' = 1
    /\ errors' = <<>>
    /\ warnings' = <<>>
    /\ indentLevel' = 0
    /\ scopeVars' = {}
    /\ result' = <<>>
    /\ stack' = <<>>
    /\ pc' = "start"
    /\ callErr' = <<>>
    /\ ret' = [out |-> <<>>, failed |-> FALSE, err |-> <<>>]
    /\ returned' = <<>>
    /\ iterPos' = -1
    /\ UNCHANGED <<targetLang, validateVars, transpileVars, cacheVars, handlerVars, browserVars>>

NextAgain == Next \/ ParseAgain

SpecAgain == Init /\ [][NextAgain]_vars

---------------------------------------------------------------------------
(* validateIdentifier on its own: a parser as NewMarkupParser leaves it, and *)
(* calls of validateIdentifier on one name                                  *)

MaxNameLen == 3

MaxCalls == 2

NameChars == {"i", "f", "I", "_", "1", "-"}

Names ==
    LET N[k \in 0..MaxNameLen] ==
            IF k = 0 THEN {<<>>}
            ELSE N[k - 1] \cup {Append(n, ch) : n \in N[k - 1], ch \in NameChars}
    IN N[MaxNameLen] \cup Range(reserved)
          \cup { <<"E","l","s","e">>, <<"V","A","R">>, <<"F","u","n","c","t","i","o","n">>, <<"f","u","n","c","t","i","o","n","1">>, <<"x">>, <<"c","o","u","n","t">>,
                 <<"m","y","-","v","a","r">>, <<"a"," ","b">> }

InitValidate ==
    /\ NewMarkupParser(<<>>, "javascript")
    /\ vName \in Names
    /\ validated = <<>>
    /\ TranspileIdle
    /\ FirstRun
    /\ NoServer
    /\ NoBrowser

ValidateCall ==
    /\ Len(validated) < MaxCalls
    /\ validated' = Append(validated, validateIdentifier(vName))
    /\ UNCHANGED <<parseVars, vName, transpileVars, prevRuns, cacheVars, handlerVars, browserVars>>

NextValidate == ValidateCall

SpecValidate == InitValidate /\ [][NextValidate]_vars

---------------------------------------------------------------------------
(* A transpile function on its own: a parser as NewMarkupParser leaves it,  *)
(* and one call of transpileTag on a loop tag                               *)

LoopNames == { <<"l","o","o","p">>, <<"f","o","r">>, <<"f","o","r","e","a","c","h">>, <<"r","e","p","e","a","t">> }

LoopKeys == { <<"v","a","r">>, <<"f","r","o","m">>, <<"t","o">>, <<"s","t","e","p">>, <<"i","n">>, <<"t","i","m","e","s">> }

\* the value an attribute has when the tag carries it
LoopValue(key) ==
    CASE key = <<"v","a","r">> -> <<"k">>
      [] key = <<"f","r","o","m">> -> <<"0">>
      [] key = <<"t","o">> -> <<"9">>
      [] key = <<"s","t","e","p">> -> <<"2">>
      [] key = <<"i","n">> -> <<"x","s">>
      [] key = <<"t","i","m","e","s">> -> <<"3">>

LoopTags ==
    { [Name |-> n, Attributes |-> [k \in keys |-> LoopValue(k)], Content |-> c,
       Children |-> <<>>, Line |-> 1, Column |-> 1 + Len(n) + 1] :
        n \in LoopNames, keys \in SUBSET LoopKeys, c \in { <<>>, <<" ","f","(","k",")",";"," ">> } }

InitTranspile ==
    /\ \E lang \in {"javascript", "typescript"} : NewMarkupParser(<<>>, lang)
    /\ ValidateIdle
    /\ callTag \in LoopTags
    /\ callOut = <<>>
    /\ FirstRun
    /\ NoServer
    /\ NoBrowser

\* p.transpileTag(callTag), called once
TranspileCall ==
    /\ callOut = <<>>
    /\ \E t \in {transpileTag(callTag, targetLang, indentLevel)} :
          /\ callOut' = <<t.out>>
          /\ errors' = errors \o t.errs
          /\ warnings' = warnings \o t.warns
          /\ scopeVars' = scopeVars \cup t.vars
    /\ UNCHANGED <<source, input, position, line, column, targetLang, indentLevel, result,
                   stack, pc, callErr, ret, returned, iterPos, callTag>>
    /\ UNCHANGED <<validateVars, prevRuns, cacheVars, handlerVars, browserVars>>

NextTranspile == TranspileCall

SpecTranspile == InitTranspile /\ [][NextTranspile]_vars


---------------------------------------------------------------------------
(* Block tags one inside the other: a parser as NewMarkupParser leaves it,  *)
(* the innermost tag with the content parseTag gave it, and one call of     *)
(* transpileTag for each tag from the innermost outwards, the text of each  *)
(* being the content of the tag around it                                   *)

MaxDepth == 2

MaxLines == 3

BlockNames == { <<"w","h","i","l","e">>, <<"e","l","s","e">>, <<"t","r","y">> }

BodyLines == { <<"x">>, <<" ","y",";">>, <<" ">>, <<>>, <<"\t">> }

\* the contents of a tag: lines joined by "\n", and trimmed as parseTag does
Bodies ==
    LET B[k \in 1..MaxLines] ==
            IF k = 1 THEN BodyLines
            ELSE B[k - 1] \cup {b \o <<"\n">> \o l : b \in B[k - 1], l \in BodyLines}
    IN {TrimSpace(b) : b \in B[MaxLines]}

BlockTag(name, content, children) ==
    [Name |-> name, Attributes |-> NoAttributes, Content |-> content,
     Children |-> children, Line |-> 1, Column |-> 1 + Len(name) + 1]

InitIndent ==
    /\ NewMarkupParser(<<>>, "javascript")
    /\ ValidateIdle
    /\ \E name \in BlockNames, body \in Bodies : callTag = BlockTag(name, body, <<>>)
    /\ callOut = <<>>
    /\ FirstRun
    /\ NoServer
    /\ NoBrowser

\* p.transpileTag(callTag) in the parseTag of the tag around callTag, which
\* writes the text to its content and ends at its closing tag
TranspileNested ==
    /\ Len(callOut) < MaxDepth
    /\ \E t \in {transpileTag(callTag, targetLang, indentLevel)},
          r \in {indentBlock(TrimSpace(callTag.Content), indentLevel)},
          around \in BlockNames :
          /\ callOut' = Append(callOut, t.out)
          /\ indentLevel' = r.level
          /\ callTag' = BlockTag(around, TrimSpace(t.out), <<callTag>>)
          /\ errors' = errors \o t.errs
          /\ warnings' = warnings \o t.warns
          /\ scopeVars' = scopeVars \cup t.vars
    /\ UNCHANGED <<source, input, position, line, column, targetLang, result,
                   stack, pc, callErr, ret, returned, iterPos>>
    /\ UNCHANGED <<validateVars, prevRuns, cacheVars, handlerVars, browserVars>>

NextIndent == TranspileNested

SpecIndent == InitIndent /\ [][NextIndent]_vars

---------------------------------------------------------------------------
(* The response cache of the two servers: api/transpile.go (build "api")    *)
(* and cmd/server/main.go (build "main").  Time is counted in ticks.        *)

\* 1000 entries in the source
MaxCacheSize == 2

\* time.Hour in the source
CacheTTL == 2

MaxTime == 3
MaxResponses == 2

Min(a, b) == IF a < b THEN a ELSE b

\* the %t verb
FmtBool(b) == IF b THEN <<"t","r","u","e">> ELSE <<"f","a","l","s","e">>

\* hex of SHA-256, which has no collision on the texts of the model
Sha256Hex(s) == <<"sha256:">> \o s

generateCacheKey(code, lang, markup) ==
    Sha256Hex(code \o <<":">> \o lang \o <<":">> \o FmtBool(markup))

\* the nil pointer
Nil == 0

CacheEntry(res, t) == [result |-> res, timestamp |-> t]

\* delete(tc.cache, k) for the keys ks
Delete(c, ks) == [k \in DOMAIN c \ ks |-> c[k]]

\* tc.cache[key] = entry
Put(c, key, entry) == [k \in DOMAIN c \cup {key} |-> IF k = key THEN entry ELSE c[k]]

\* TranspileCache.Get at time t: [result, found]
Get(c, key, t) ==
    IF key \in DOMAIN c /\ t - c[key].timestamp < CacheTTL
    THEN [result |-> c[key].result, found |-> TRUE]
    ELSE [result |-> Nil, found |-> FALSE]

\* what Set's eviction can leave of c at time t in api/transpile.go: up to
\* MaxCacheSize/4 expired entries deleted (the loop stops after the deletion that
\* reaches the count), then one entry of the map's iteration order if the map is
\* still full
Evict_api(c, t) ==
    IF Cardinality(DOMAIN c) >= MaxCacheSize
    THEN LET expired == {k \in DOMAIN c : c[k].timestamp < t - CacheTTL}
             quarter == MaxCacheSize \div 4
             quota == Min(Cardinality(expired), IF quarter < 1 THEN 1 ELSE quarter)
             swept == {Delete(c, D) : D \in {E \in SUBSET expired : Cardinality(E) = quota}}
         IN UNION { IF Cardinality(DOMAIN s) >= MaxCacheSize
                    THEN {Delete(s, {k}) : k \in DOMAIN s}
                    ELSE {s} : s \in swept }
    ELSE {c}

\* what Set's eviction can leave of c in main.go: the entry with the oldest
\* timestamp deleted, the first the iteration meets among equally old ones
Evict_main(c) ==
    IF Cardinality(DOMAIN c) >= MaxCacheSize /\ DOMAIN c # {}
    THEN {Delete(c, {k}) : k \in {o \in DOMAIN c :
                                     \A j \in DOMAIN c : c[o].timestamp <= c[j].timestamp}}
    ELSE {c}

\* nothing evicted
Set_NoEviction(b, c, key, res, t) == {Put(c, key, CacheEntry(res, t))}

\* TranspileCache.Set at time t in build b: the maps it can leave
Set(b, c, key, res, t) ==
    {Put(e, key, CacheEntry(res, t)) : e \in (IF b = "api" THEN Evict_api(c, t) ELSE Evict_main(c))}

\* the keys in the order of their last use, key being used now
Use(key) == SelectSeq(used, LAMBDA k : k # key) \o <<key>>

(* Get and Set called in any order, on the cache alone *)

CacheKeys == {generateCacheKey(code, "javascript", FALSE) : code \in { <<"a">>, <<"b">>, <<"c">> }}

\* the responses earlier requests built
Built ==
    [a \in 1..MaxResponses |->
        TranspileResponse(TRUE, <<"r">>, <<"j","a","v","a","s","c","r","i","p","t">>, <<>>, <<>>, [cached |-> FALSE], FALSE)]

InitCache ==
    /\ NewMarkupParser(<<>>, "javascript")
    /\ ValidateIdle
    /\ TranspileIdle
    /\ FirstRun
    /\ build \in {"api", "main"}
    /\ now = 0
    /\ cache = <<>>
    /\ heap = Built
    /\ used = <<>>
    /\ pending = <<>>
    /\ NoHandler
    /\ NoBrowser

GetCall ==
    \E key \in CacheKeys :
        /\ used' = IF Get(cache, key, now).found THEN Use(key) ELSE used
        /\ UNCHANGED <<build, now, cache, heap>>
        /\ UNCHANGED <<parseVars, validateVars, transpileVars, prevRuns, handlerVars, browserVars>>

SetCall ==
    \E key \in CacheKeys, res \in DOMAIN heap :
        /\ cache' \in Set(build, cache, key, res, now)
        /\ used' = Use(key)
        /\ UNCHANGED <<build, now, heap>>
        /\ UNCHANGED <<parseVars, validateVars, transpileVars, prevRuns, handlerVars, browserVars>>

\* time passes
Tick ==
    /\ now < MaxTime
    /\ now' = now + 1
    /\ UNCHANGED <<build, cache, heap, used>>
    /\ UNCHANGED <<parseVars, validateVars, transpileVars, prevRuns, handlerVars, browserVars>>

NextCache == GetCall \/ SetCall \/ Tick

SpecCache == InitCache /\ [][NextCache]_vars

---------------------------------------------------------------------------
(* The transpile route: Handler of api/transpile.go (build "api") and the   *)
(* POST /api/v1/transpile route of main.go (build "main").  Each handler    *)
(* runs on its own goroutine; the steps of a handler that touch nothing     *)
(* shared are one action.  A MarkupParser belongs to one handler, so the    *)
(* model runs one parser at a time.                                         *)

\* 100000 bytes in the source
MaxCodeLength == 16

dangerousPatterns == << <<"e","v","a","l","(">>, <<"e","x","e","c","(">>, <<"_","_","i","m","p","o","r","t","_","_">>, <<"s","u","b","p","r","o","c","e","s","s">>, <<"o","s",".","s","y","s","t","e","m">> >>

\* fmt.Errorf(msg), and the nil error
Errorf(msg) == [nil |-> FALSE, msg |-> msg]
NilError == [nil |-> TRUE, msg |-> <<>>]

\* the patterns looked for in the code as it is written
validateInput_CaseSensitive(code) ==
    IF Len(code) = 0 THEN Errorf(<<"c","o","d","e"," ","c","a","n","n","o","t"," ","b","e"," ","e","m","p","t","y">>)
    ELSE IF Len(code) > MaxCodeLength THEN Errorf(<<"c","o","d","e"," ","e","x","c","e","e","d","s"," ","m","a","x","i","m","u","m"," ","l","e","n","g","t","h">>)
    ELSE IF \E i \in 1..Len(dangerousPatterns) : Contains(code, dangerousPatterns[i])
    THEN Errorf(<<"u","n","s","a","f","e"," ","p","a","t","t","e","r","n"," ","d","e","t","e","c","t","e","d">>)
    ELSE NilError

validateInput(code) ==
    IF Len(code) = 0 THEN Errorf(<<"c","o","d","e"," ","c","a","n","n","o","t"," ","b","e"," ","e","m","p","t","y">>)
    ELSE IF Len(code) > MaxCodeLength THEN Errorf(<<"c","o","d","e"," ","e","x","c","e","e","d","s"," ","m","a","x","i","m","u","m"," ","l","e","n","g","t","h">>)
    ELSE IF \E lower \in {ToLower(code)} :
               \E i \in 1..Len(dangerousPatterns) : Contains(lower, dangerousPatterns[i])
    THEN Errorf(<<"u","n","s","a","f","e"," ","p","a","t","t","e","r","n"," ","d","e","t","e","c","t","e","d">>)
    ELSE NilError

markupTags == { <<"<","p","r","i","n","t">>, <<"<","v","a","r">>, <<"<","l","e","t">>, <<"<","c","o","n","s","t">>, <<"<","f","u","n","c","t","i","o","n">>, <<"<","l","o","o","p">>, <<"<","i","f">>, <<"<","c","l","a","s","s">> }

detectMarkupSyntax(code) ==
    \E lower \in {ToLower(code)} : \E tag \in markupTags : Contains(lower, tag)

\* transpileToLanguage's emojiMap
languageMap ==
    << [emoji |-> <<"U+1F4E6">>, keyword |-> <<"c","o","n","s","t">>],
       [emoji |-> <<"U+1F522">>, keyword |-> <<"l","e","t">>],
       [emoji |-> <<"U+1F3AF">>, keyword |-> <<"f","u","n","c","t","i","o","n">>],
       [emoji |-> <<"U+27A1","U+FE0F">>, keyword |-> <<"=",">">>],
       [emoji |-> <<"U+1F501">>, keyword |-> <<"f","o","r">>],
       [emoji |-> <<"U+2753">>, keyword |-> <<"i","f">>],
       [emoji |-> <<"U+274C">>, keyword |-> <<"e","l","s","e">>],
       [emoji |-> <<"U+2705">>, keyword |-> <<"t","r","u","e">>],
       [emoji |-> <<"U+26D4">>, keyword |-> <<"f","a","l","s","e">>],
       [emoji |-> <<"U+1F519">>, keyword |-> <<"r","e","t","u","r","n">>],
       [emoji |-> <<"U+1F4DD">>, keyword |-> <<"c","o","n","s","o","l","e",".","l","o","g">>],
       [emoji |-> <<"U+2795">>, keyword |-> <<"+">>],
       [emoji |-> <<"U+2796">>, keyword |-> <<"-">>],
       [emoji |-> <<"U+2716","U+FE0F">>, keyword |-> <<"*">>],
       [emoji |-> <<"U+2797">>, keyword |-> <<"/">>],
       [emoji |-> <<"U+1F7F0">>, keyword |-> <<"=","=","=">>],
       [emoji |-> <<"U+2757">>, keyword |-> <<"!","=","=">>],
       [emoji |-> <<"U+2B06","U+FE0F">>, keyword |-> <<">">>],
       [emoji |-> <<"U+2B07","U+FE0F">>, keyword |-> <<"<">>],
       [emoji |-> <<"U+1F4C8">>, keyword |-> <<">","=">>],
       [emoji |-> <<"U+1F4C9">>, keyword |-> <<"<","=">>],
       [emoji |-> <<"U+1F517">>, keyword |-> <<"&","&">>],
       [emoji |-> <<"U+1F500">>, keyword |-> <<"|","|">>],
       [emoji |-> <<"U+1F6AB">>, keyword |-> <<"!">>],
       [emoji |-> <<"U+1F4E5">>, keyword |-> <<"i","m","p","o","r","t">>],
       [emoji |-> <<"U+1F4E4">>, keyword |-> <<"e","x","p","o","r","t">>],
       [emoji |-> <<"U+1F504">>, keyword |-> <<"w","h","i","l","e">>],
       [emoji |-> <<"U+26A1">>, keyword |-> <<"a","s","y","n","c">>],
       [emoji |-> <<"U+23F3">>, keyword |-> <<"a","w","a","i","t">>],
       [emoji |-> <<"U+1F381">>, keyword |-> <<"n","e","w">>],
       [emoji |-> <<"U+1F5D1","U+FE0F">>, keyword |-> <<"d","e","l","e","t","e">>],
       [emoji |-> <<"U+1F4CA">>, keyword |-> <<"t","y","p","e","o","f">>],
       [emoji |-> <<"U+1F50D">>, keyword |-> <<"i","n">>],
       [emoji |-> <<"U+1F3AA">>, keyword |-> <<"s","w","i","t","c","h">>],
       [emoji |-> <<"U+1F518">>, keyword |-> <<"c","a","s","e">>],
       [emoji |-> <<"U+1F3C1">>, keyword |-> <<"b","r","e","a","k">>],
       [emoji |-> <<"U+23ED","U+FE0F">>, keyword |-> <<"c","o","n","t","i","n","u","e">>],
       [emoji |-> <<"U+1F4A5">>, keyword |-> <<"t","h","r","o","w">>],
       [emoji |-> <<"U+1F6E1","U+FE0F">>, keyword |-> <<"t","r","y">>],
       [emoji |-> <<"U+1F6A8">>, keyword |-> <<"c","a","t","c","h">>],
       [emoji |-> <<"U+1F3C6">>, keyword |-> <<"f","i","n","a","l","l","y">>],
       [emoji |-> <<"U+1F510">>, keyword |-> <<"c","l","a","s","s">>],
       [emoji |-> <<"U+1F3A8">>, keyword |-> <<"e","x","t","e","n","d","s">>],
       [emoji |-> <<"U+1F31F">>, keyword |-> <<"s","t","a","t","i","c">>],
       [emoji |-> <<"U+1F527">>, keyword |-> <<"c","o","n","s","t","r","u","c","t","o","r">>],
       [emoji |-> <<"U+1F3AD">>, keyword |-> <<"t","h","i","s">>],
       [emoji |-> <<"U+1F4CD">>, keyword |-> <<"n","u","l","l">>],
       [emoji |-> <<"U+2754">>, keyword |-> <<"u","n","d","e","f","i","n","e","d">>] >>

\* no emoji of the map overlaps another and no keyword holds an emoji, so the
\* order of the map's iteration does not show in the result; the error is nil
transpileToLanguage(code) ==
    LET RECURSIVE go(_, _)
        go(i, acc) ==
            IF i > Len(languageMap) THEN acc
            ELSE CHOOSE r \in {go(i + 1, replaced) :
                                 replaced \in {ReplaceAll(acc, languageMap[i].emoji,
                                                           languageMap[i].keyword)}} : TRUE
    IN go(1, code)

\* TranspileResponse{Success: false, Errors: errs}
Failure(errs) == TranspileResponse(FALSE, <<>>, <<>>, errs, <<>>, NilMap, FALSE)

\* the status a refused request is answered with: c.Status(400) in main.go,
\* none set in api/transpile.go
BadRequest(b) == IF b = "main" THEN 400 ELSE 200

\* c.Status(500) in main.go
ServerError(b) == IF b = "main" THEN 500 ELSE 200

LanguageError(b) ==
    IF b = "main" THEN <<"I","n","v","a","l","i","d"," ","t","a","r","g","e","t"," ","l","a","n","g","u","a","g","e","."," ","O","n","l","y"," ","'","j","a","v","a","s","c","r","i","p","t","'"," ","i","s"," ","s","u","p","p","o","r","t","e","d",".">>
    ELSE <<"O","n","l","y"," ","J","a","v","a","S","c","r","i","p","t"," ","i","s"," ","s","u","p","p","o","r","t","e","d">>

\* the response of a successful transpilation
Success(b, output, warns, usedMarkup, elapsed) ==
    IF b = "main"
    THEN [TranspileResponse(TRUE, output, <<"j","a","v","a","s","c","r","i","p","t">>, <<>>, warns,
                            [transpileTime |-> elapsed, cached |-> FALSE], usedMarkup)
            EXCEPT !.JavaScript = output]
    ELSE TranspileResponse(TRUE, output, <<"j","a","v","a","s","c","r","i","p","t">>, <<>>, warns,
                           [cached |-> FALSE], usedMarkup)

\* NewMarkupParser(src, lang) in the next state
StartParser(src, lang) ==
    /\ source' = src
    /\ input' = src
    /\ position' = 0
    /\ line' = 1
    /\ column' = 1
    /\ errors' = <<>>
    /\ warnings' = <<>>
    /\ targetLang' = lang
    /\ indentLevel' = 0
    /\ scopeVars' = {}
    /\ result' = <<>>
    /\ stack' = <<>>
    /\ pc' = "start"
    /\ callErr' = <<>>
    /\ ret' = [out |-> <<>>, failed |-> FALSE, err |-> <<>>]
    /\ returned' = <<>>
    /\ iterPos' = -1

\* what the handlers leave alone when they do not parse
parserSide == <<parseVars, validateVars, transpileVars, prevRuns>>

\* handler r writes status and body to its client and returns
Reply(r, status, body) ==
    /\ resp' = [resp EXCEPT ![r] = [Status |-> status, Body |-> body]]
    /\ rpc' = [rpc EXCEPT ![r] = "done"]

\* another handler is at the object, and one of the two writes
Conflict(r, obj, kind) ==
    \E q \in Handlers \ {r} :
        /\ access[q].obj = obj
        /\ access[q].kind # "none"
        /\ (kind = "write" \/ access[q].kind = "write")

\* handler r starts to read or write the response object: Go's runtime may end
\* the process when a map is written while another goroutine is at it
Touch(r, obj, kind) ==
    /\ access' = [access EXCEPT ![r] = [obj |-> obj, kind |-> kind]]
    /\ crashed' \in (IF Conflict(r, obj, kind) THEN BOOLEAN ELSE {FALSE})

\* the next request arrives at a free handler, which decodes its body
Receive(r) ==
    /\ ~crashed
    /\ pending # <<>>
    /\ ~Head(pending).tick
    /\ rpc[r] \in {"idle", "done"}
    /\ req' = [req EXCEPT ![r] = Head(pending).request]
    /\ pending' = Tail(pending)
    /\ loc' = [loc EXCEPT ![r] = [NoLocal EXCEPT !.start = now]]
    /\ resp' = [resp EXCEPT ![r] = NoResponse]
    /\ rpc' = [rpc EXCEPT ![r] = "validate"]
    /\ UNCHANGED <<access, readers, writer, parsing, crashed>>
    /\ UNCHANGED cacheVars
    /\ UNCHANGED <<parserSide, browserVars>>

\* the checks before the cache: body, validateInput, target language
Validate(r) ==
    /\ ~crashed
    /\ rpc[r] = "validate"
    /\ LET q == req[r]
           v == validateInput(q.Code)
           lang == IF ToLower(q.TargetLanguage) = <<>> THEN <<"j","a","v","a","s","c","r","i","p","t">>
                   ELSE ToLower(q.TargetLanguage)
           useMarkup == q.UseMarkup \/ detectMarkupSyntax(q.Code)
       IN IF ~q.Decodes
          THEN Reply(r, BadRequest(build), Failure(<< <<"I","n","v","a","l","i","d"," ","r","e","q","u","e","s","t">> >>)) /\ loc' = loc
          ELSE IF ~v.nil
          THEN Reply(r, BadRequest(build), Failure(<<v.msg>>)) /\ loc' = loc
          ELSE IF lang # <<"j","a","v","a","s","c","r","i","p","t">>
          THEN Reply(r, BadRequest(build), Failure(<<LanguageError(build)>>)) /\ loc' = loc
          ELSE /\ loc' = [loc EXCEPT ![r].useMarkup = useMarkup,
                                     ![r].cacheKey = generateCacheKey(q.Code, lang, useMarkup)]
               /\ rpc' = [rpc EXCEPT ![r] = "rlock"]
               /\ resp' = resp
    /\ UNCHANGED <<pending, req, access, readers, writer, parsing, crashed>>
    /\ UNCHANGED cacheVars
    /\ UNCHANGED <<parserSide, browserVars>>

\* Get: tc.mu.RLock()
RLock(r) ==
    /\ ~crashed
    /\ rpc[r] = "rlock"
    /\ writer = 0
    /\ readers' = readers \cup {r}
    /\ rpc' = [rpc EXCEPT ![r] = "get"]
    /\ UNCHANGED <<pending, req, loc, resp, access, writer, parsing, crashed>>
    /\ UNCHANGED cacheVars
    /\ UNCHANGED <<parserSide, browserVars>>

\* Get: the lookup and the deferred RUnlock
GetReturn(r) ==
    /\ ~crashed
    /\ rpc[r] = "get"
    /\ \E g \in {Get(cache, loc[r].cacheKey, now)} :
          /\ loc' = [loc EXCEPT ![r].cached = g.result]
          /\ rpc' = [rpc EXCEPT ![r] = IF g.found THEN "hit" ELSE "miss"]
          /\ used' = IF g.found THEN Use(loc[r].cacheKey) ELSE used
    /\ readers' = readers \ {r}
    /\ UNCHANGED <<pending, req, resp, access, writer, parsing, crashed>>
    /\ UNCHANGED <<build, now, cache, heap>>
    /\ UNCHANGED <<parserSide, browserVars>>

\* cached.Metadata["cached"] = true, begun
HitWriteBegin(r) ==
    /\ ~crashed
    /\ rpc[r] = "hit"
    /\ Touch(r, loc[r].cached, "write")
    /\ rpc' = [rpc EXCEPT ![r] = "hitW"]
    /\ UNCHANGED <<pending, req, loc, resp, readers, writer, parsing>>
    /\ UNCHANGED cacheVars
    /\ UNCHANGED <<parserSide, browserVars>>

\* cached.Metadata["cached"] = true, done (api/transpile.go makes the map when
\* it is nil; every stored response carries one)
HitWriteEnd(r) ==
    /\ ~crashed
    /\ rpc[r] = "hitW"
    /\ heap' = [heap EXCEPT ![loc[r].cached].Metadata =
                    IF @ = NilMap THEN [cached |-> TRUE] ELSE [@ EXCEPT !.cached = TRUE]]
    /\ access' = [access EXCEPT ![r] = NoAccess]
    /\ rpc' = [rpc EXCEPT ![r] = "encode"]
    /\ UNCHANGED <<pending, req, loc, resp, readers, writer, parsing, crashed>>
    /\ UNCHANGED <<build, now, cache, used>>
    /\ UNCHANGED <<parserSide, browserVars>>

\* the encoder starts to read the response
EncodeBegin(r) ==
    /\ ~crashed
    /\ rpc[r] = "encode"
    /\ Touch(r, loc[r].cached, "read")
    /\ rpc' = [rpc EXCEPT ![r] = "encoding"]
    /\ UNCHANGED <<pending, req, loc, resp, readers, writer, parsing>>
    /\ UNCHANGED cacheVars
    /\ UNCHANGED <<parserSide, browserVars>>

\* the response is written to the client as the encoder read it
EncodeEnd(r) ==
    /\ ~crashed
    /\ rpc[r] = "encoding"
    /\ Reply(r, 200, heap[loc[r].cached])
    /\ access' = [access EXCEPT ![r] = NoAccess]
    /\ UNCHANGED <<pending, req, loc, readers, writer, parsing, crashed>>
    /\ UNCHANGED cacheVars
    /\ UNCHANGED <<parserSide, browserVars>>

\* what the handler does with the transpiler's results: the error response,
\* the empty-output response, or the response object it will store
Transpiled(r, output, errs, warns, failed, err) ==
    IF failed \/ errs # <<>>
    THEN /\ Reply(r, BadRequest(build),
                  TranspileResponse(FALSE, <<>>, <<"j","a","v","a","s","c","r","i","p","t">>,
                                    errs \o (IF failed THEN <<err>> ELSE <<>>), warns,
                                    NilMap, loc[r].useMarkup))
         /\ UNCHANGED <<loc, heap>>
    ELSE IF TrimSpace(output) = <<>>
    THEN /\ Reply(r, ServerError(build), Failure(<< <<"E","m","p","t","y"," ","o","u","t","p","u","t">> >>))
         /\ UNCHANGED <<loc, heap>>
    ELSE /\ heap' = Append(heap, Success(build, output, warns, loc[r].useMarkup,
                                         now - loc[r].start))
         /\ loc' = [loc EXCEPT ![r].cached = Len(heap) + 1]
         /\ rpc' = [rpc EXCEPT ![r] = "lock"]
         /\ resp' = resp

\* transpileToLanguage, for a code that is not markup
TranspilePlain(r) ==
    /\ ~crashed
    /\ rpc[r] = "miss"
    /\ ~loc[r].useMarkup
    /\ Transpiled(r, transpileToLanguage(req[r].Code), <<>>, <<>>, FALSE, <<>>)
    /\ UNCHANGED <<pending, req, access, readers, writer, parsing, crashed>>
    /\ UNCHANGED <<build, now, cache, used>>
    /\ UNCHANGED <<parserSide, browserVars>>

\* transpileWithMarkup: NewMarkupParser(code, targetLang)
StartParse(r) ==
    /\ ~crashed
    /\ rpc[r] = "miss"
    /\ loc[r].useMarkup
    /\ parsing = 0
    /\ StartParser(req[r].Code, "javascript")
    /\ parsing' = r
    /\ rpc' = [rpc EXCEPT ![r] = "parsing"]
    /\ UNCHANGED <<pending, req, loc, resp, access, readers, writer, crashed>>
    /\ UNCHANGED cacheVars
    /\ UNCHANGED <<validateVars, transpileVars, prevRuns, browserVars>>

\* transpileWithMarkup: a step of parser.Parse()
ServerParse ==
    /\ ~crashed
    /\ parsing # 0
    /\ Next

\* transpileWithMarkup returns output, GetErrors(), GetWarnings() and err; the
\* parser is dropped
EndParse(r) ==
    /\ ~crashed
    /\ rpc[r] = "parsing"
    /\ parsing = r
    /\ pc = "done"
    /\ Transpiled(r, ret.out, errors, warnings, ret.failed, ret.err)
    /\ StartParser(<<>>, "javascript")
    /\ parsing' = 0
    /\ UNCHANGED <<pending, req, access, readers, writer, crashed>>
    /\ UNCHANGED <<build, now, cache, used>>
    /\ UNCHANGED <<validateVars, transpileVars, prevRuns, browserVars>>

\* Set: tc.mu.Lock()
Lock(r) ==
    /\ ~crashed
    /\ rpc[r] = "lock"
    /\ writer = 0
    /\ readers = {}
    /\ writer' = r
    /\ rpc' = [rpc EXCEPT ![r] = "set"]
    /\ UNCHANGED <<pending, req, loc, resp, access, readers, parsing, crashed>>
    /\ UNCHANGED cacheVars
    /\ UNCHANGED <<parserSide, browserVars>>

\* Set: the eviction, the store and the deferred Unlock
SetReturn(r) ==
    /\ ~crashed
    /\ rpc[r] = "set"
    /\ cache' \in Set(build, cache, loc[r].cacheKey, loc[r].cached, now)
    /\ used' = Use(loc[r].cacheKey)
    /\ writer' = 0
    /\ rpc' = [rpc EXCEPT ![r] = "encode"]
    /\ UNCHANGED <<pending, req, loc, resp, access, readers, parsing, crashed>>
    /\ UNCHANGED <<build, now, heap>>
    /\ UNCHANGED <<parserSide, browserVars>>

\* time passes, whatever the handlers are at
Elapse ==
    /\ ~crashed
    /\ pending # <<>>
    /\ Head(pending).tick
    /\ pending' = Tail(pending)
    /\ now' = now + 1
    /\ UNCHANGED <<rpc, req, loc, resp, access, readers, writer, parsing, crashed>>
    /\ UNCHANGED <<build, cache, heap, used>>
    /\ UNCHANGED <<parserSide, browserVars>>

(* The requests the server is sent *)

Request(code, lang, markup) ==
    [Decodes |-> TRUE, Code |-> code, TargetLanguage |-> lang, UseMarkup |-> markup]

\* a code one byte longer than MaxCodeLength
LongCode == [i \in 1..(MaxCodeLength + 1) |-> "x"]

PrintRequest == Request(<<"<","p","r","i","n","t",">","1","<","/","p","r","i","n","t",">">>, <<>>, FALSE)
PlainRequest == Request(<<"x">>, <<"J","a","v","a","S","c","r","i","p","t">>, FALSE)
EmojiRequest == Request(<<"U+1F4DD">> \o <<"(","1",")">>, <<>>, FALSE)

\* requests whose response is stored
Cacheable == {PrintRequest, PlainRequest, EmojiRequest}

Requests ==
    Cacheable \cup
    { NoRequest,
      Request(<<>>, <<>>, FALSE),
      Request(LongCode, <<>>, FALSE),
      Request(<<"E","V","A","L","(","1",")">>, <<>>, FALSE),
      Request(<<"x"," ","="," ","e","x","e","c","(","y",")">>, <<>>, FALSE),
      Request(<<"_","_","I","m","p","o","r","t","_","_">>, <<>>, TRUE),
      Request(<<"a"," ","s","u","b","p","r","o","c","e","s","s">>, <<>>, FALSE),
      Request(<<"o","s",".","S","y","s","t","e","m">>, <<>>, FALSE),
      Request(<<"x">>, <<"p","y","t","h","o","n">>, FALSE),
      Request(<<" ">>, <<>>, TRUE),
      Request(<<" ">>, <<>>, FALSE),
      Request(<<" ","x"," ","<","b",">","<","i",">","y","<","/","b",">">>, <<>>, TRUE) }

\* the request q arrives
Arrive(q) == [tick |-> FALSE, request |-> q]

\* a tick of the clock
Later == [tick |-> TRUE, request |-> NoRequest]

\* what happens to the server in a run, in order
Scenarios ==
    {<<Arrive(PrintRequest), Arrive(q)>> : q \in Requests}
        \cup { <<Arrive(PrintRequest), Arrive(PrintRequest), Arrive(PrintRequest)>>,
               <<Arrive(PlainRequest), Later, Later, Arrive(PlainRequest)>>,
               <<Arrive(PrintRequest), Later, Arrive(PlainRequest), Later,
                 Arrive(EmojiRequest), Arrive(PrintRequest)>> }

InitServer ==
    /\ NewMarkupParser(<<>>, "javascript")
    /\ ValidateIdle
    /\ TranspileIdle
    /\ FirstRun
    /\ build \in {"api", "main"}
    /\ NewCache
    /\ pending \in Scenarios
    /\ NoHandler
    /\ NoBrowser

NextServer ==
    \/ \E r \in Handlers :
          \/ Receive(r)
          \/ Validate(r)
          \/ RLock(r)
          \/ GetReturn(r)
          \/ HitWriteBegin(r)
          \/ HitWriteEnd(r)
          \/ EncodeBegin(r)
          \/ EncodeEnd(r)
          \/ TranspilePlain(r)
          \/ StartParse(r)
          \/ EndParse(r)
          \/ Lock(r)
          \/ SetReturn(r)
    \/ ServerParse
    \/ Elapse

SpecServer == InitServer /\ [][NextServer]_vars

---------------------------------------------------------------------------
(* The page's API client (lib/api.ts), in its two versions: "retry", which  *)
(* has no request timeout, and "timeout", which arms one for every attempt. *)
(* The page runs on one thread: a step is a callback or the part of an      *)
(* async function between two awaits.  Time is counted in ticks.            *)

MAX_RETRIES == 2

\* 1000 ms in the source
RETRY_DELAY == 1

\* 30000 ms in the source
REQUEST_TIMEOUT == 3

\* the calls of fetchWithRetry that are made
MaxFetches == 2

Clients == {"retry", "timeout"}

\* new AbortController(), made by call f for its attempt number n
NewController(f, n) ==
    [aborted |-> FALSE, fetch |-> f, attempt |-> n, age |-> 0, abortedBy |-> 0]

\* setTimeout(callback, delay): kind names the callback, which runs for call f
\* (kind "abort", "retry") or with the text code (kind "debounce"); controller
\* is the controller that was current when the timer was armed
NewTimer(kind, delay, f, k, code) ==
    [kind |-> kind, left |-> delay, state |-> "pending", fetch |-> f, controller |-> k,
     code |-> code]

\* clearTimeout(id)
clearTimeout(ts, id) ==
    IF id \in DOMAIN ts /\ ts[id].state = "pending"
    THEN [ts EXCEPT ![id].state = "cleared"]
    ELSE ts

NoReply == [ok |-> FALSE, success |-> FALSE, output |-> <<>>, errors |-> <<>>]

\* a call fetchWithRetry(url, {body}, retries) that has not reached its fetch
NewFetch(body, retries) ==
    [body |-> body, retries |-> retries, left |-> retries, attempts |-> 0, pc |-> "called",
     signal |-> 0, timeoutId |-> 0, waited |-> 0, response |-> NoReply, error |-> <<>>]

\* what the server may answer to a request with the text body
Replies(body) ==
    IF body = <<>>
    THEN { [ok |-> TRUE, success |-> TRUE, output |-> <<>>, errors |-> <<>>],
           [ok |-> FALSE, success |-> FALSE, output |-> <<>>, errors |-> <<>>] }
    ELSE { [ok |-> TRUE, success |-> TRUE, output |-> <<"j","s"," ","o","f"," ">> \o body, errors |-> <<>>],
           [ok |-> TRUE, success |-> FALSE, output |-> <<>>, errors |-> << <<"b","a","d"," ","t","a","g">> >>],
           [ok |-> FALSE, success |-> FALSE, output |-> <<>>, errors |-> <<>>] }

\* fetchWithRetry from its entry to its await fetch(...), for call f of the calls
\* fs, the timers being ts: spent is the number of retries this entry uses up (0
\* at the first entry, 1 at an entry from the catch block)
Attempt(f, fs, ts, spent) ==
    LET k == Len(controllers) + 1
        armed == IF client = "timeout"
                 THEN Append(ts, NewTimer("abort", REQUEST_TIMEOUT, f, k, <<>>))
                 ELSE ts
    IN /\ controllers' = Append(controllers, NewController(f, fs[f].attempts + 1))
       /\ abortController' = k
       /\ timers' = armed
       /\ fetches' = [fs EXCEPT ![f] =
                        [@ EXCEPT !.pc = "fetching",
                                  !.left = @ - spent,
                                  !.attempts = @ + 1,
                                  !.signal = k,
                                  !.timeoutId = IF client = "timeout" THEN Len(armed) ELSE 0]]

\* the attempt of call f is outstanding and its signal is not aborted
Outstanding(f) ==
    /\ f \in DOMAIN fetches
    /\ fetches[f].pc = "fetching"

\* call f of fetchWithRetry has returned a response or thrown
Ended(f) == f \in DOMAIN fetches /\ fetches[f].pc \in {"returned", "thrown"}

\* the retries of the call that is made next: the default or, as healthCheck
\* passes, none for the first call, and none for a call made after it
CallRetries == IF fetches = <<>> THEN {0, MAX_RETRIES} ELSE {0}

\* a caller (transpile, healthCheck, ...) calls fetchWithRetry
CallFetch ==
    /\ Len(fetches) < MaxFetches
    /\ \E retries \in CallRetries :
          Attempt(Len(fetches) + 1, Append(fetches, NewFetch(<<>>, retries)), timers, 0)
    /\ UNCHANGED <<client, editorVars>>
    /\ UNCHANGED <<parseVars, validateVars, transpileVars, prevRuns, cacheVars, handlerVars>>

\* await fetch(...) is fulfilled with a response
FetchResponds(f) ==
    /\ Outstanding(f)
    /\ ~controllers[fetches[f].signal].aborted
    /\ \E r \in Replies(fetches[f].body) :
          fetches' = [fetches EXCEPT ![f] = [@ EXCEPT !.pc = "returned", !.response = r]]
    /\ timers' = IF client = "timeout" THEN clearTimeout(timers, fetches[f].timeoutId)
                 ELSE timers
    /\ UNCHANGED <<client, abortController, controllers, editorVars>>
    /\ UNCHANGED <<parseVars, validateVars, transpileVars, prevRuns, cacheVars, handlerVars>>

\* the next attempt made without the wait of RETRY_DELAY
FetchFails_NoDelay(f) ==
    /\ Outstanding(f)
    /\ ~controllers[fetches[f].signal].aborted
    /\ IF fetches[f].left > 0
       THEN /\ timers' = Append(timers, NewTimer("retry", 0, f, 0, <<>>))
            /\ fetches' = [fetches EXCEPT ![f] = [@ EXCEPT !.pc = "waiting", !.waited = 0]]
       ELSE /\ timers' = timers
            /\ fetches' = [fetches EXCEPT ![f] =
                             [@ EXCEPT !.pc = "thrown", !.error = <<"F","a","i","l","e","d"," ","t","o"," ","f","e","t","c","h">>]]
    /\ UNCHANGED <<client, abortController, controllers, editorVars>>
    /\ UNCHANGED <<parseVars, validateVars, transpileVars, prevRuns, cacheVars, handlerVars>>

\* await fetch(...) is rejected with a network error (a TypeError)
FetchFails(f) ==
    /\ Outstanding(f)
    /\ ~controllers[fetches[f].signal].aborted
    /\ IF fetches[f].left > 0
       THEN /\ timers' = Append(timers, NewTimer("retry", RETRY_DELAY, f, 0, <<>>))
            /\ fetches' = [fetches EXCEPT ![f] = [@ EXCEPT !.pc = "waiting", !.waited = 0]]
       ELSE /\ timers' = timers
            /\ fetches' = [fetches EXCEPT ![f] =
                             [@ EXCEPT !.pc = "thrown", !.error = <<"F","a","i","l","e","d"," ","t","o"," ","f","e","t","c","h">>]]
    /\ UNCHANGED <<client, abortController, controllers, editorVars>>
    /\ UNCHANGED <<parseVars, validateVars, transpileVars, prevRuns, cacheVars, handlerVars>>

\* await fetch(...) is rejected with an AbortError, its signal being aborted
FetchAborted(f) ==
    /\ Outstanding(f)
    /\ controllers[fetches[f].signal].aborted
    /\ fetches' = [fetches EXCEPT ![f] =
                     [@ EXCEPT !.pc = "thrown",
                               !.error = IF client = "timeout"
                                         THEN <<"R","e","q","u","e","s","t"," ","t","i","m","e","o","u","t"," ","-"," ","b","a","c","k","e","n","d"," ","m","a","y"," ","b","e"," ","s","l","o","w"," ","o","r"," ","u","n","a","v","a","i","l","a","b","l","e">>
                                         ELSE <<"A","b","o","r","t","E","r","r","o","r">>]]
    /\ UNCHANGED <<client, abortController, controllers, timers, editorVars>>
    /\ UNCHANGED <<parseVars, validateVars, transpileVars, prevRuns, cacheVars, handlerVars>>

Due(t) ==
    /\ t \in DOMAIN timers
    /\ timers[t].state = "pending"
    /\ timers[t].left = 0

\* this.abortController?.abort(), run by timer t
abort(cs, t) ==
    IF abortController = 0 \/ cs[abortController].aborted THEN cs
    ELSE [cs EXCEPT ![abortController] = [@ EXCEPT !.aborted = TRUE, !.abortedBy = t]]

\* the timer armed with REQUEST_TIMEOUT runs its callback
AbortTimerFires(t) ==
    /\ Due(t)
    /\ timers[t].kind = "abort"
    /\ controllers' = abort(controllers, t)
    /\ timers' = [timers EXCEPT ![t].state = "fired"]
    /\ UNCHANGED <<client, abortController, fetches, editorVars>>
    /\ UNCHANGED <<parseVars, validateVars, transpileVars, prevRuns, cacheVars, handlerVars>>

\* the RETRY_DELAY is over: fetchWithRetry(url, options, retries - 1)
RetryTimerFires(t) ==
    /\ Due(t)
    /\ timers[t].kind = "retry"
    /\ Attempt(timers[t].fetch, fetches, [timers EXCEPT ![t].state = "fired"], 1)
    /\ UNCHANGED <<client, editorVars>>
    /\ UNCHANGED <<parseVars, validateVars, transpileVars, prevRuns, cacheVars, handlerVars>>

\* one tick passes: no timer is due
TimePasses ==
    /\ \A t \in DOMAIN timers : ~Due(t)
    /\ timers' = [t \in DOMAIN timers |->
                    IF timers[t].state = "pending" THEN [timers[t] EXCEPT !.left = @ - 1]
                    ELSE timers[t]]
    /\ controllers' = [k \in DOMAIN controllers |->
                         IF /\ Outstanding(controllers[k].fetch)
                            /\ fetches[controllers[k].fetch].signal = k
                            /\ controllers[k].age < REQUEST_TIMEOUT
                         THEN [controllers[k] EXCEPT !.age = @ + 1]
                         ELSE controllers[k]]
    /\ fetches' = [f \in DOMAIN fetches |->
                     IF fetches[f].pc = "waiting" /\ fetches[f].waited < RETRY_DELAY
                     THEN [fetches[f] EXCEPT !.waited = @ + 1]
                     ELSE fetches[f]]
    /\ <<timers', controllers', fetches'>> # <<timers, controllers, fetches>>
    /\ UNCHANGED <<client, abortController, editorVars>>
    /\ UNCHANGED <<parseVars, validateVars, transpileVars, prevRuns, cacheVars, handlerVars>>

\* a page whose API client is new
InitClient ==
    /\ NewMarkupParser(<<>>, "javascript")
    /\ ValidateIdle
    /\ TranspileIdle
    /\ FirstRun
    /\ NoServer
    /\ client \in Clients
    /\ abortController = 0
    /\ controllers = <<>>
    /\ timers = <<>>
    /\ fetches = <<>>
    /\ store = NewEditorStore("markup")
    /\ settings = [autoTranspile |-> TRUE]
    /\ debounceTimer = 0
    /\ transpiles = <<>>

NextClient ==
    \/ CallFetch
    \/ \E f \in 1..MaxFetches : FetchResponds(f)
    \/ \E f \in 1..MaxFetches : FetchFails(f)
    \/ \E f \in 1..MaxFetches : FetchAborted(f)
    \/ \E t \in DOMAIN timers : AbortTimerFires(t)
    \/ \E t \in DOMAIN timers : RetryTimerFires(t)
    \/ TimePasses

SpecClient == InitClient /\ [][NextClient]_vars

\* every fetch is settled and every timer runs in the end, and time goes on
FairSpecClient ==
    /\ SpecClient
    /\ \A f \in 1..MaxFetches : WF_vars(FetchResponds(f) \/ FetchFails(f) \/ FetchAborted(f))
    /\ WF_vars(\E t \in DOMAIN timers : AbortTimerFires(t) \/ RetryTimerFires(t))
    /\ WF_vars(TimePasses)

---------------------------------------------------------------------------
(* The page's code editor (components/code-editor.tsx) with useEditorStore  *)
(* and useSettingsStore (lib/store.ts), on top of the API client            *)

\* 500 ms in the source
DebounceDelay == 1

\* the edits that are made
MaxEdits == 2

\* the fetch attempts that the network fails
MaxFailures == 1

\* setCode, setOutput, setError, setIsTranspiling of useEditorStore
setCode(s, code) == [s EXCEPT !.code = code]

setOutput(s, output) == [s EXCEPT !.output = output, !.error = Null]

setError(s, error) == [s EXCEPT !.error = error]

setIsTranspiling(s, isTranspiling) == [s EXCEPT !.isTranspiling = isTranspiling]

\* the code points of the characters that are not ASCII
codePoints ==
    [ch \in {"U+1F4BE", "U+2753", "U+2B50"} |->
        CASE ch = "U+1F4BE" -> 128190
          [] ch = "U+2753" -> 10067
          [] ch = "U+2B50" -> 11088]

\* /<[a-z]+[^>]*>/i.test(code)
hasMarkupTags(code) ==
    \E i \in 1..Len(code) :
        /\ code[i] = "<"
        /\ i + 1 <= Len(code)
        /\ code[i + 1] \in Range(Lowers) \cup Range(Uppers)
        /\ \E j \in (i + 2)..Len(code) : code[j] = ">"

\* /[\u{1F300}-\u{1F9FF}]|[\u{2600}-\u{26FF}]|[\u{2700}-\u{27BF}]/u.test(code)
hasEmojis(code) ==
    \E i \in 1..Len(code) :
        /\ code[i] \in DOMAIN codePoints
        /\ \/ codePoints[code[i]] \in 127744..129535
           \/ codePoints[code[i]] \in 9728..9983
           \/ codePoints[code[i]] \in 9984..10175

EmojiDetected ==
    <<"E","m","o","j","i"," ","s","y","n","t","a","x"," ","d","e","t","e","c","t","e","d","."," ","S","w","i","t","c","h"," ","t","o"," ","E","m","o","j","i"," ","m","o","d","e"," ","t","o"," ","u","s","e"," ","e","m","o","j","i","-","b","a","s","e","d"," ","p","r","o","g","r","a","m","m","i","n","g",".">>

MarkupDetected ==
    <<"M","a","r","k","u","p"," ","s","y","n","t","a","x"," ","d","e","t","e","c","t","e","d","."," ","S","w","i","t","c","h"," ","t","o"," ","M","a","r","k","u","p"," ","m","o","d","e"," ","t","o"," ","u","s","e"," ","t","a","g","-","b","a","s","e","d"," ","p","r","o","g","r","a","m","m","i","n","g",".">>

\* a call of transpileCode(code): pc is "await" while it awaits
\* apiClient.transpile, whose call of fetchWithRetry is fetch (0: none is made)
Transpile(code, p, f) == [code |-> code, pc |-> p, fetch |-> f]

\* the texts that are typed
EditorCodes ==
    { <<" ">>,
      <<"<","b",">","1","<","/","b",">">>,
      <<"U+1F4BE">> \o <<" ","x">>,
      <<"U+2B50">> \o <<" ","x">> }

IsDebounce(t) == t.kind = "debounce"

\* handleChange(value)
handleChange(value) ==
    /\ store' = setCode(store, value)
    /\ IF settings.autoTranspile
       THEN /\ timers' = Append(clearTimeout(timers, debounceTimer),
                                NewTimer("debounce", DebounceDelay, 0, 0, value))
            /\ debounceTimer' = Len(timers) + 1
       ELSE UNCHANGED <<timers, debounceTimer>>
    /\ UNCHANGED <<client, abortController, controllers, fetches, settings, transpiles>>
    /\ UNCHANGED <<parseVars, validateVars, transpileVars, prevRuns, cacheVars, handlerVars>>

\* the user changes the text
Edit ==
    /\ Len(SelectSeq(timers, IsDebounce)) < MaxEdits
    /\ \E value \in EditorCodes : value # store.code /\ handleChange(value)

\* transpileCode(code) from its entry to its first await or its return, the
\* timers being ts
transpileCode(code, ts) ==
    IF TrimSpace(code) = <<>>
    THEN /\ store' = setError(setOutput(store, <<>>), Null)
         /\ transpiles' = Append(transpiles, Transpile(code, "done", 0))
         /\ timers' = ts
         /\ UNCHANGED <<abortController, controllers, fetches>>
    ELSE IF store.syntaxMode = "markup" /\ hasEmojis(code) /\ ~hasMarkupTags(code)
    THEN /\ store' = setIsTranspiling(
                        setOutput(setError(store, Str(EmojiDetected)), <<>>), FALSE)
         /\ transpiles' = Append(transpiles, Transpile(code, "done", 0))
         /\ timers' = ts
         /\ UNCHANGED <<abortController, controllers, fetches>>
    ELSE IF store.syntaxMode = "emoji" /\ hasMarkupTags(code) /\ ~hasEmojis(code)
    THEN /\ store' = setIsTranspiling(
                        setOutput(setError(store, Str(MarkupDetected)), <<>>), FALSE)
         /\ transpiles' = Append(transpiles, Transpile(code, "done", 0))
         /\ timers' = ts
         /\ UNCHANGED <<abortController, controllers, fetches>>
    ELSE /\ store' = setError(setIsTranspiling(store, TRUE), Null)
         /\ transpiles' = Append(transpiles, Transpile(code, "await", Len(fetches) + 1))
         /\ Attempt(Len(fetches) + 1, Append(fetches, NewFetch(code, MAX_RETRIES)), ts, 0)

\* the debounce timer runs its callback () => transpileCode(newCode)
DebounceFires(t) ==
    /\ Due(t)
    /\ timers[t].kind = "debounce"
    /\ transpileCode(timers[t].code, [timers EXCEPT ![t].state = "fired"])
    /\ UNCHANGED <<client, settings, debounceTimer>>
    /\ UNCHANGED <<parseVars, validateVars, transpileVars, prevRuns, cacheVars, handlerVars>>

\* what transpileCode does with the outcome of apiClient.transpile for the call
\* f of fetchWithRetry: the store after its try, catch and finally
Settled(s, f) ==
    LET r == f.response
        shown ==
            IF f.pc = "thrown" THEN setError(s, Str(f.error))
            ELSE IF ~r.ok THEN setError(s, Str(<<"T","r","a","n","s","p","i","l","a","t","i","o","n"," ","f","a","i","l","e","d">>))
            ELSE IF r.success THEN setOutput(s, r.output)
            ELSE setError(s, Str(IF Join(r.errors, <<"\n">>) = <<>>
                                 THEN <<"T","r","a","n","s","p","i","l","a","t","i","o","n"," ","f","a","i","l","e","d">>
                                 ELSE Join(r.errors, <<"\n">>)))
    IN setIsTranspiling(shown, FALSE)

\* apiClient.transpile ends for the transpileCode call i, which goes on after
\* its await
TranspileSettles(i) ==
    /\ i \in DOMAIN transpiles
    /\ transpiles[i].pc = "await"
    /\ Ended(transpiles[i].fetch)
    /\ store' = Settled(store, fetches[transpiles[i].fetch])
    /\ transpiles' = [transpiles EXCEPT ![i].pc = "done"]
    /\ UNCHANGED <<clientVars, settings, debounceTimer>>
    /\ UNCHANGED <<parseVars, validateVars, transpileVars, prevRuns, cacheVars, handlerVars>>

\* the attempts that failed so far
Failures == Cardinality({k \in DOMAIN controllers :
                            \/ fetches[controllers[k].fetch].signal # k
                            \/ fetches[controllers[k].fetch].pc \in {"waiting"}
                            \/ fetches[controllers[k].fetch].error = <<"F","a","i","l","e","d"," ","t","o"," ","f","e","t","c","h">>})

\* the network fails a fetch
NetworkFails(f) == Failures < MaxFailures /\ FetchFails(f)

InitEditor ==
    /\ NewMarkupParser(<<>>, "javascript")
    /\ ValidateIdle
    /\ TranspileIdle
    /\ FirstRun
    /\ NoServer
    /\ client \in Clients
    /\ abortController = 0
    /\ controllers = <<>>
    /\ timers = <<>>
    /\ fetches = <<>>
    /\ \E mode \in {"emoji", "markup"} : store = NewEditorStore(mode)
    /\ settings \in {[autoTranspile |-> b] : b \in BOOLEAN}
    /\ debounceTimer = 0
    /\ transpiles = <<>>

NextEditor ==
    \/ Edit
    \/ \E t \in DOMAIN timers : DebounceFires(t)
    \/ \E i \in DOMAIN transpiles : TranspileSettles(i)
    \/ \E f \in DOMAIN fetches : FetchResponds(f)
    \/ \E f \in DOMAIN fetches : NetworkFails(f)
    \/ \E f \in DOMAIN fetches : FetchAborted(f)
    \/ \E t \in DOMAIN timers : AbortTimerFires(t)
    \/ \E t \in DOMAIN timers : RetryTimerFires(t)
    \/ TimePasses

SpecEditor == InitEditor /\ [][NextEditor]_vars

---------------------------------------------------------------------------
(* What the claims are stated with *)

Done == pc = "done"

IsPrefix(a, b) == Len(a) <= Len(b) /\ SubSeq(b, 1, Len(a)) = a

\* the 1-based line and column of the character at 0-based offset pos of s
LineAt(s, pos) == 1 + Cardinality({i \in 1..pos : s[i] = "\n"})

ColumnAt(s, pos) ==
    LET nl == {i \in 1..pos : s[i] = "\n"}
        last == IF nl = {} THEN 0 ELSE CHOOSE i \in nl : \A j \in nl : j <= i
    IN pos - last + 1

\* the identifier that starts at index i of s
NameFrom(s, i) ==
    LET stops == {j \in i..Len(s) : ~IsIdentCh(s[j])}
        stop == IF stops = {} THEN Len(s) + 1 ELSE CHOOSE j \in stops : \A k \in stops : j <= k
    IN SubSeq(s, i, stop - 1)

\* the indices of s where an opening tag "<name>" or "<name attributes>" starts,
\* the text up to the next ">" not ending in "/"
OpenTags(s) ==
    {i \in 1..Len(s) :
        /\ s[i] = "<"
        /\ NameFrom(s, i + 1) # <<>>
        /\ LET after == i + 1 + Len(NameFrom(s, i + 1))
               gts == {j \in after..Len(s) : s[j] = ">"}
           IN /\ gts # {}
              /\ s[after] \in {">", " "}
              /\ s[(CHOOSE j \in gts : \A k \in gts : j <= k) - 1] # "/"}

\* the indices of s where a closing tag "</name>" starts
CloseTags(s) ==
    {i \in 1..Len(s) :
        /\ HasPrefixAt(s, i, <<"<","/">>)
        /\ NameFrom(s, i + 2) # <<>>
        /\ HasPrefixAt(s, i + 2 + Len(NameFrom(s, i + 2)), <<">">>)}

\* some tag name is opened more often than it is closed
UnclosedDoc(s) ==
    \E i \in OpenTags(s) :
        Cardinality({j \in OpenTags(s) : NameFrom(s, j + 1) = NameFrom(s, i + 1)})
          > Cardinality({j \in CloseTags(s) : NameFrom(s, j + 2) = NameFrom(s, i + 1)})

\* the tags of s are <X><Y></X></Y>, X and Y different
CrossedDoc(s) ==
    /\ Cardinality(OpenTags(s)) = 2
    /\ Cardinality(CloseTags(s)) = 2
    /\ \E i1, i2 \in OpenTags(s) : \E k1, k2 \in CloseTags(s) :
          /\ i1 < i2 /\ i2 < k1 /\ k1 < k2
          /\ NameFrom(s, i1 + 1) = NameFrom(s, k1 + 2)
          /\ NameFrom(s, i2 + 1) = NameFrom(s, k2 + 2)
          /\ NameFrom(s, i1 + 1) # NameFrom(s, i2 + 1)

\* the text before 0-based offset pos of s ends a tag called name: with "/>",
\* or with "</name", optional whitespace and ">"
EndsTag(s, pos, name) ==
    /\ pos >= 2
    /\ s[pos] = ">"
    /\ \/ s[pos - 1] = "/"
       \/ \E k \in 1..pos :
             /\ HasPrefixAt(s, k, <<"<","/">> \o name)
             /\ \A j \in (k + 2 + Len(name))..(pos - 1) : isWhitespace(s[j])

IsUnclosedError(err, name) == HasPrefixAt(err, 1, <<"u","n","c","l","o","s","e","d"," ","t","a","g"," ","<">> \o name \o <<">"," ","a","t"," ","l","i","n","e"," ">>)

\* a name as the identifier rule describes it
IdentFirst == Range(Lowers) \cup Range(Uppers) \cup {"_"}

IdentRest == IdentFirst \cup Range(Digits)

ReservedWords ==
    { <<"i","f">>, <<"e","l","s","e">>, <<"f","o","r">>, <<"w","h","i","l","e">>, <<"f","u","n","c","t","i","o","n">>, <<"r","e","t","u","r","n">>, <<"c","o","n","s","t">>,
      <<"l","e","t">>, <<"v","a","r">> }

ValidName(name) ==
    /\ name # <<>>
    /\ name[1] \in IdentFirst
    /\ \A i \in 2..Len(name) : name[i] \in IdentRest
    /\ name \notin ReservedWords

VariableKinds == { <<"v","a","r">>, <<"l","e","t">>, <<"c","o","n","s","t">>, <<"v","a","r","i","a","b","l","e">> }

\* Parse has returned, and its input was one tag without nested tags
OneTagParsed ==
    /\ Done
    /\ iterPos = 0
    /\ Len(returned) = 1
    /\ returned[1].Children = <<>>
    /\ position = Len(input)

---------------------------------------------------------------------------
(* C1 *)

\* C1 as claimed: for every input, Parse returns a non-nil error if and only if
\* at least one error string was recorded in the parser's error list.
C1_ErrorIffRecorded == Done => (ret.failed <=> Len(errors) > 0)

\* C1 as amended: for every input that is not blank, Parse returns a non-nil error
\* if and only if at least one error string was recorded; for a blank input it
\* returns the "empty input" error and records nothing.
C1_ErrorIffRecordedUnlessBlank ==
    Done => IF TrimSpace(source) = <<>>
            THEN ret.failed /\ errors = <<>> /\ ret.err = <<"e","m","p","t","y"," ","i","n","p","u","t">>
            ELSE ret.failed <=> Len(errors) > 0

C1_Witness == Done /\ TrimSpace(source) # <<>> /\ ret.failed /\ Len(errors) >= 2

---------------------------------------------------------------------------
(* C2 *)

\* C2: if the input is empty or whitespace-only, Parse fails with an error and
\* returns empty output without scanning: it never enters the scan loop, and
\* position, line, column and the warning list keep their initial values.
C2_BlankInputFails ==
    TrimSpace(source) = <<>> =>
        /\ pc \in {"start", "done"}
        /\ position = 0 /\ line = 1 /\ column = 1 /\ warnings = <<>>
        /\ Done => ret.failed /\ ret.out = <<>>

C2_Witness == Done /\ Len(source) >= 2 /\ TrimSpace(source) = <<>> /\ ret.failed

---------------------------------------------------------------------------
(* C3 *)

\* C3 as claimed: when parsing a tag fails at top level, Parse advances the
\* scanner by exactly one character.
C3_AdvancesExactlyOne == [][pc = "failed" => position' = position + 1]_vars

\* C3 as amended: when parsing a tag fails at top level, Parse appends the message
\* to the error list, advances the scanner by one character if any is left (by
\* none at the end of the input) and continues scanning; output already rendered
\* is kept and only ever extended; and Parse finally returns the output together
\* with a non-nil error that is "parsing errors: " followed by all recorded
\* messages joined with "; ".
C3_SkipsAndContinues ==
    /\ [][pc = "failed" =>
            /\ errors' = Append(errors, callErr)
            /\ position' = IF position < Len(input) THEN position + 1 ELSE position
            /\ pc' = "scan"
            /\ result' = result]_vars
    /\ [][IsPrefix(result, result')]_vars
    /\ [](Done /\ Len(errors) > 0 =>
            /\ ret.out = result
            /\ ret.failed
            /\ ret.err = <<"p","a","r","s","i","n","g"," ","e","r","r","o","r","s",":"," ">> \o Join(errors, <<";"," ">>))

C3_Witness ==
    /\ Done
    /\ source = <<"x","<","/","b",">","x">>
    /\ Len(errors) = 1
    /\ ret.out = <<"x","\n","b",">","x","\n">>
    /\ ret.err = <<"p","a","r","s","i","n","g"," ","e","r","r","o","r","s",":"," ","e","x","p","e","c","t","e","d"," ","'","<","'">>

---------------------------------------------------------------------------
(* C4 *)

\* C4: Parse terminates on every input; every iteration of the top-level scan
\* loop strictly increases the scan position; every iteration of a tag's content
\* loop advances the position or returns from parseTag; and when a tag name is
\* opened more often than closed, or the tags are crossed as in
\* <div><span>x</div></span>, at least one error is reported.
C4_Terminates ==
    /\ <>Done
    /\ [](pc \in {"scan", "done"} => position > iterPos)
    /\ [][pc = "content" =>
            \/ position' > position
            \/ Len(stack') < Len(stack)
            \/ pc' = "failed"]_vars
    /\ [](Done /\ (UnclosedDoc(input) \/ CrossedDoc(input)) =>
            Len(errors) >= 1 /\ ret.failed)

C4_Witness ==
    /\ Done
    /\ source = <<"<","d","i","v",">","<","s","p","a","n",">","x","<","/","d","i","v",">","<","/","s","p","a","n",">">>
    /\ CrossedDoc(input)
    /\ Len(errors) >= 1

---------------------------------------------------------------------------
(* C5 *)

\* C5 as claimed: if the input is exhausted before a matching close tag, parseTag
\* returns an "unclosed tag <name>" error (name being a tag that is open).
C5_ExhaustedIsUnclosed ==
    [][pc = "content" /\ pc' = "failed"
          /\ (position = Len(input) \/ position' = Len(input)) =>
            \E k \in 1..Len(stack) : IsUnclosedError(callErr', stack[k].tagName)]_vars

\* C5 as amended: parseTag returns a tag without error only if the tag was
\* self-closing or a close tag with the same name was consumed; if the content
\* loop of a tag reaches the end of the input, parseTag returns an
\* "unclosed tag <name>" error naming that tag (when the input ends inside a
\* nested tag's header or inside the close tag, it returns another parse error);
\* so an open tag that is never closed always makes Parse return a non-nil error.
C5_UnclosedIsReported ==
    /\ [][Len(returned') > Len(returned) =>
            EndsTag(input, position', returned'[Len(returned')].Name)]_vars
    /\ [][pc = "content" /\ position >= Len(input) =>
            pc' = "failed" /\ IsUnclosedError(callErr', Top.tagName)]_vars
    /\ [](Done /\ UnclosedDoc(input) => ret.failed /\ Len(errors) >= 1)

C5_Witness ==
    /\ Done
    /\ UnclosedDoc(input)
    /\ Len(returned) >= 1
    /\ \E i \in 1..Len(errors) : IsUnclosedError(errors[i], <<"b">>)

---------------------------------------------------------------------------
(* C6 *)

\* C6 as claimed: the line and column stored in a tag, and reported in its
\* unclosed-tag error, are the line and column of the tag's opening "<".
C6_TagPositionIsOpeningLt ==
    /\ \A k \in 1..Len(stack) :
          /\ stack[k].tag.Line = LineAt(input, stack[k].ltPos)
          /\ stack[k].tag.Column = ColumnAt(input, stack[k].ltPos)
    /\ (Done /\ source = <<"<","f","u","n","c","t","i","o","n"," ","n","a","m","e","=","\"","f","\"",">">>) =>
          errors = << <<"u","n","c","l","o","s","e","d"," ","t","a","g"," ","<","f","u","n","c","t","i","o","n",">"," ","a","t"," ","l","i","n","e"," ","1",","," ","c","o","l","u","m","n"," ","1">> >>

---------------------------------------------------------------------------
(* C7 *)

\* C7 as claimed: a tag written in any letter casing is recorded with a
\* lowercase name and renders as the same tag written in lowercase does.
C7_NamesAreCaseInsensitive ==
    \A k \in 1..Len(returned) :
        /\ returned[k].Name = ToLower(returned[k].Name)
        /\ transpileTag(returned[k], targetLang, indentLevel)
             = transpileTag([returned[k] EXCEPT !.Name = ToLower(@)], targetLang,
                            indentLevel)

---------------------------------------------------------------------------
(* C8 *)

\* C8 as claimed: for the input <var name="x" value="5"/> the output is
\* "let x = 5;" with no error.
C8_VarRendersLet ==
    (Done /\ source = <<"<","v","a","r"," ","n","a","m","e","=","\"","x","\""," ","v","a","l","u","e","=","\"","5","\"","/",">">> /\ targetLang = "javascript") =>
        ret.out = <<"l","e","t"," ","x"," ","="," ","5",";","\n">> /\ ~ret.failed

\* C8 as amended: a variable-declaration tag with a valid name N and value V
\* renders exactly "<keyword> N = V;" in the default flavor, the keyword being
\* var for a tag named var, const for a tag named const and let otherwise; for
\* the input <var name="x" value="5"/> the output is "var x = 5;" with no error.
C8_VariableRenders ==
    /\ (OneTagParsed /\ targetLang = "javascript"
          /\ ToLower(returned[1].Name) \in VariableKinds
          /\ ValidName(Attr(returned[1], <<"n","a","m","e">>))) =>
            /\ ret.out = (IF returned[1].Name = <<"v","a","r">> THEN <<"v","a","r">>
                          ELSE IF returned[1].Name = <<"c","o","n","s","t">> THEN <<"c","o","n","s","t">>
                          ELSE <<"l","e","t">>)
                         \o <<" ">> \o Attr(returned[1], <<"n","a","m","e">>) \o <<" ","="," ">>
                         \o Attr(returned[1], <<"v","a","l","u","e">>) \o <<";","\n">>
            /\ ~ret.failed
            /\ errors = <<>>
    /\ (Done /\ source = <<"<","v","a","r"," ","n","a","m","e","=","\"","x","\""," ","v","a","l","u","e","=","\"","5","\"","/",">">> /\ targetLang = "javascript") =>
            ret.out = <<"v","a","r"," ","x"," ","="," ","5",";","\n">> /\ ~ret.failed /\ errors = <<>>

C8_Witness ==
    /\ Done
    /\ source = <<"<","v","a","r"," ","n","a","m","e","=","\"","x","\""," ","v","a","l","u","e","=","\"","5","\"","/",">">>
    /\ targetLang = "javascript"
    /\ ret.out = <<"v","a","r"," ","x"," ","="," ","5",";","\n">>

---------------------------------------------------------------------------
(* C9 *)

\* C9 as claimed: when a variable tag's name fails identifier validation, the
\* tag's output is "/* Invalid variable: <reason> */", exactly one entry
\* "invalid variable: <reason>" is appended to the error list and no declaration
\* is emitted; for <const name="if" value="1"/> the reason is
\* "'if' is a reserved keyword".
C9_InvalidVariableEntry ==
    /\ (OneTagParsed /\ ToLower(returned[1].Name) \in VariableKinds
          /\ returned[1].Content = <<>>
          /\ ~ValidName(Attr(returned[1], <<"n","a","m","e">>))) =>
            /\ Len(errors) = 1
            /\ HasPrefixAt(errors[1], 1, <<"i","n","v","a","l","i","d"," ","v","a","r","i","a","b","l","e",":"," ">>)
            /\ ret.out = <<"/","*"," ","I","n","v","a","l","i","d"," ","v","a","r","i","a","b","l","e",":"," ">>
                           \o SubSeq(errors[1], Len(<<"i","n","v","a","l","i","d"," ","v","a","r","i","a","b","l","e",":"," ">>) + 1,
                                     Len(errors[1]))
                           \o <<" ","*","/","\n">>
    /\ (Done /\ source = <<"<","c","o","n","s","t"," ","n","a","m","e","=","\"","i","f","\""," ","v","a","l","u","e","=","\"","1","\"","/",">">>) =>
            /\ ret.out = <<"/","*"," ","I","n","v","a","l","i","d"," ","v","a","r","i","a","b","l","e",":"," ","'","i","f","'"," ","i","s"," ","a"," ","r","e","s","e","r","v","e","d"," ","k","e","y","w","o","r","d"," ","*","/","\n">>
            /\ errors = << <<"i","n","v","a","l","i","d"," ","v","a","r","i","a","b","l","e",":"," ","'","i","f","'"," ","i","s"," ","a"," ","r","e","s","e","r","v","e","d"," ","k","e","y","w","o","r","d">> >>

---------------------------------------------------------------------------
(* C10 *)

\* C10: validateIdentifier accepts a name if and only if it is non-empty, matches
\* ^[A-Za-z_][A-Za-z0-9_]*$ and is not exactly one of the nine reserved words
\* (so "If" is accepted); a call changes no field of the parser, and a second
\* call on the same name returns what the first returned.
C10_ValidateIdentifier ==
    /\ [](\A k \in 1..Len(validated) :
            /\ validated[k].nil <=> ValidName(vName)
            /\ validated[k] = validated[1])
    /\ [][validated' # validated => UNCHANGED parserFields]_vars

C10_Witness ==
    /\ Len(validated) = 2
    /\ vName = <<"I","f">>
    /\ validated[1].nil
    /\ validated[2].nil

---------------------------------------------------------------------------
(* C11 *)

\* the names transpileTag's switch knows
KnownKinds ==
    { <<"p","r","i","n","t">>, <<"l","o","g">>, <<"c","o","n","s","o","l","e">>, <<"v","a","r">>, <<"l","e","t">>, <<"c","o","n","s","t">>, <<"v","a","r","i","a","b","l","e">>,
      <<"f","u","n","c","t","i","o","n">>, <<"f","u","n","c">>, <<"f","n">>, <<"l","o","o","p">>, <<"f","o","r">>, <<"f","o","r","e","a","c","h">>, <<"r","e","p","e","a","t">>,
      <<"w","h","i","l","e">>, <<"i","f">>, <<"c","o","n","d","i","t","i","o","n">>, <<"e","l","s","e">>, <<"e","x","t","e","n","d">>, <<"c","l","a","s","s">>, <<"m","e","t","h","o","d">>,
      <<"i","m","p","o","r","t">>, <<"r","e","q","u","i","r","e">>, <<"u","s","e">>, <<"e","x","p","o","r","t">>, <<"r","e","t","u","r","n">>, <<"a","r","r","a","y">>, <<"l","i","s","t">>,
      <<"o","b","j","e","c","t">>, <<"d","i","c","t">>, <<"m","a","p">>, <<"t","r","y">>, <<"c","a","t","c","h">>, <<"c","o","m","m","e","n","t">>, <<"a","s","y","n","c">>,
      <<"a","w","a","i","t">>, <<"s","w","i","t","c","h">>, <<"m","a","t","c","h">>, <<"c","a","s","e">>, <<"b","r","e","a","k">>, <<"c","o","n","t","i","n","u","e">> }

IsSuffix(a, b) == Len(a) <= Len(b) /\ SubSeq(b, Len(b) - Len(a) + 1, Len(b)) = a

\* the tag parseTag returned in this step
LastReturned == returned[Len(returned)]

UnknownText(tag) == <<"/","*"," ","U","n","k","n","o","w","n"," ","t","a","g",":"," ","<">> \o tag.Name \o <<">"," ","*","/","\n">> \o tag.Content

\* s has a tag, every "<" of s opens "<b>" or "</b>", and the tags are balanced
OnlyUnknownTags(s) ==
    /\ \E i \in 1..Len(s) : HasPrefixAt(s, i, <<"<","b",">">>)
    /\ \A i \in 1..Len(s) :
          s[i] = "<" => HasPrefixAt(s, i, <<"<","b",">">>) \/ HasPrefixAt(s, i, <<"<","/","b",">">>)
    /\ \A k \in 0..Len(s) :
          Cardinality({i \in 1..k : HasPrefixAt(s, i, <<"<","b",">">>)})
            >= Cardinality({i \in 1..k : HasPrefixAt(s, i, <<"<","/","b",">">>)})
    /\ Cardinality({i \in 1..Len(s) : HasPrefixAt(s, i, <<"<","b",">">>)})
          = Cardinality({i \in 1..Len(s) : HasPrefixAt(s, i, <<"<","/","b",">">>)})

\* C11: a tag whose name is not a known kind never produces an error: when
\* parseTag returns it, "/* Unknown tag: <name> */", a newline and the tag's
\* content are rendered (into the output at top level, into the parent's content
\* when nested), exactly one message "unknown tag: <name>" is appended to the
\* warnings and none to the errors; a document whose tags are all unknown and
\* properly closed makes Parse return a nil error.
C11_UnknownTagWarns ==
    /\ [][(Len(returned') > Len(returned)
            /\ ToLower(LastReturned'.Name) \notin KnownKinds) =>
            /\ errors' = errors
            /\ warnings' = Append(warnings, <<"u","n","k","n","o","w","n"," ","t","a","g",":"," ","<">> \o LastReturned'.Name \o <<">">>)
            /\ IF stack' = <<>>
               THEN result' = result \o UnknownText(LastReturned') \o <<"\n">>
               ELSE IsSuffix(UnknownText(LastReturned'), stack'[Len(stack')].content)]_vars
    /\ [](Done /\ OnlyUnknownTags(input) =>
            ~ret.failed /\ errors = <<>> /\ Len(warnings) = Len(returned))

C11_Witness ==
    /\ Done
    /\ source = <<"<","b",">","x","<","/","b",">">>
    /\ ~ret.failed
    /\ ret.out = <<"/","*"," ","U","n","k","n","o","w","n"," ","t","a","g",":"," ","<","b",">"," ","*","/","\n","x","\n">>
    /\ warnings = << <<"u","n","k","n","o","w","n"," ","t","a","g",":"," ","<","b",">">> >>

---------------------------------------------------------------------------
(* C12 *)

IsPrintKind(tag) == ToLower(tag.Name) \in { <<"p","r","i","n","t">>, <<"l","o","g">>, <<"c","o","n","s","o","l","e">> }

HasDangerousPattern(s) == \E i \in 1..Len(dangerous) : Contains(s, dangerous[i])

\* C12 as claimed: whenever the content of a print tag transpiled by Parse
\* contains "eval(", "Function(", "__proto__" or "constructor", an
\* unsafe-pattern warning is recorded and the emitted text is the expression as
\* sanitizeExpression annotates it, and no error is recorded for it.
C12_UnsafeIsFlagged ==
    (OneTagParsed /\ IsPrintKind(returned[1]) /\ HasDangerousPattern(returned[1].Content)) =>
        /\ warnings = sanitizeExpression(returned[1].Content).warns
        /\ warnings # <<>>
        /\ ret.out = <<"c","o","n","s","o","l","e",".","l","o","g","(">> \o sanitizeExpression(returned[1].Content).out
                        \o <<")",";","\n">>
        /\ errors = <<>>

---------------------------------------------------------------------------
(* C13 *)

\* callTag carries the attribute key
Carries(key) == key \in DOMAIN callTag.Attributes

\* "<head> {", the body indented by two spaces when it is not blank, and "}"
LoopText(head) ==
    head \o <<" ","{","\n">>
        \o (IF TrimSpace(callTag.Content) = <<>> THEN <<>>
            ELSE <<" "," ">> \o TrimSpace(callTag.Content))
        \o <<"\n","}">>

\* C13: for a loop-family tag the emitted form is chosen by attribute presence
\* with precedence in > times > from+to: with "in" the for-of form, else with
\* "times" the counted form, else with "from" and "to" the range form with step
\* defaulting to 1, else the comment "Invalid loop configuration"; no error is
\* recorded; a missing "var" defaults to item (for-of) or i (others).
C13_LoopPrecedence ==
    callOut # <<>> =>
        /\ errors = <<>>
        /\ LET item == IF Carries(<<"v","a","r">>) THEN <<"k">> ELSE <<"i","t","e","m">>
               i == IF Carries(<<"v","a","r">>) THEN <<"k">> ELSE <<"i">>
               step == IF Carries(<<"s","t","e","p">>) THEN <<"2">> ELSE <<"1">>
           IN callOut[1] =
                IF Carries(<<"i","n">>)
                THEN LoopText(<<"f","o","r"," ","(","c","o","n","s","t"," ">> \o item \o <<" ","o","f"," ","x","s",")">>)
                ELSE IF Carries(<<"t","i","m","e","s">>)
                THEN LoopText(<<"f","o","r"," ","(","l","e","t"," ">> \o i \o <<" ","="," ","0",";"," ">> \o i \o <<" ","<"," ","3",";"," ">> \o i
                                 \o <<"+","+",")">>)
                ELSE IF Carries(<<"f","r","o","m">>) /\ Carries(<<"t","o">>)
                THEN LoopText(<<"f","o","r"," ","(","l","e","t"," ">> \o i \o <<" ","="," ","0",";"," ">> \o i \o <<" ","<"," ","9",";"," ">> \o i
                                 \o <<" ","+","="," ">> \o step \o <<")">>)
                ELSE <<"/","*"," ","I","n","v","a","l","i","d"," ","l","o","o","p"," ","c","o","n","f","i","g","u","r","a","t","i","o","n"," ","*","/">>

C13_Witness ==
    /\ callOut = << <<"f","o","r"," ","(","c","o","n","s","t"," ","k"," ","o","f"," ","x","s",")"," ","{","\n"," "," ","f","(","k",")",";","\n","}">> >>
    /\ Carries(<<"i","n">>)
    /\ Carries(<<"t","i","m","e","s">>)
    /\ Carries(<<"f","r","o","m">>)
    /\ Carries(<<"t","o">>)

---------------------------------------------------------------------------
(* C14 *)

\* the tags of sub occur in seq, in the same order, before index bound
OccurInOrder(sub, seq, bound) ==
    \E f \in [1..Len(sub) -> 1..(bound - 1)] :
        /\ \A i \in 1..Len(sub) : seq[f[i]] = sub[i]
        /\ \A i, j \in 1..Len(sub) : i < j => f[i] < f[j]

\* C14: each nested tag that parses successfully is transpiled before its parent
\* returns; its rendered text is appended to the parent's content where the
\* nested tag occurred, and the tag is appended once to the parent's children, in
\* source order; <if condition="x>1"><print>1</print></if> is one if tag whose
\* content is console.log(1); and whose children has length 1.
C14_NestedRenderedIntoParent ==
    /\ [][(Len(returned') > Len(returned) /\ stack' # <<>>) =>
            LET k == Len(stack')
            IN /\ stack'[k].tag.Children = Append(stack[k].tag.Children, LastReturned')
               /\ stack'[k].content =
                    stack[k].content
                        \o transpileTag(LastReturned', targetLang, indentLevel).out
               /\ [stack'[k] EXCEPT !.tag.Children = <<>>, !.content = <<>>]
                    = [stack[k] EXCEPT !.tag.Children = <<>>, !.content = <<>>]]_vars
    /\ [](\A j \in 1..Len(returned) :
            OccurInOrder(returned[j].Children, returned, j))
    /\ [](\A k \in 1..Len(stack) :
            OccurInOrder(stack[k].tag.Children, returned, Len(returned) + 1))
    /\ []((Done /\ source = <<"<","i","f"," ","c","o","n","d","i","t","i","o","n","=","\"","x",">","1","\"",">","<","p","r","i","n","t",">","1","<","/","p","r","i","n","t",">","<","/","i","f",">">>) =>
            /\ Len(returned) = 2
            /\ returned[2].Name = <<"i","f">>
            /\ returned[2].Content = <<"c","o","n","s","o","l","e",".","l","o","g","(","1",")",";">>
            /\ returned[2].Children = <<returned[1]>>
            /\ returned[1].Name = <<"p","r","i","n","t">>
            /\ iterPos = 0
            /\ ~ret.failed)

C14_Witness ==
    /\ Done
    /\ source = <<"<","i","f"," ","c","o","n","d","i","t","i","o","n","=","\"","x",">","1","\"",">","<","p","r","i","n","t",">","1","<","/","p","r","i","n","t",">","<","/","i","f",">">>
    /\ Len(returned) = 2
    /\ returned[2].Content = <<"c","o","n","s","o","l","e",".","l","o","g","(","1",")",";">>
    /\ Len(returned[2].Children) = 1

---------------------------------------------------------------------------
(* C15 *)

\* s is not blank and has no "<" and no emoji of the map
RawOnly(s) ==
    /\ TrimSpace(s) # <<>>
    /\ \A i \in 1..Len(s) :
          /\ s[i] # "<"
          /\ \A e \in 1..Len(emojiMap) : ~HasPrefixAt(s, i, emojiMap[e].emoji)

\* C15: for a non-blank input without "<" and without mapped emoji, Parse
\* returns the input trimmed of surrounding whitespace, followed by a newline,
\* with a nil error; Parse applied to that output returns the same output.
C15_RawPassthrough ==
    /\ (Done /\ RawOnly(source)) =>
          ret.out = TrimSpace(source) \o <<"\n">> /\ ~ret.failed /\ errors = <<>>
    /\ (Done /\ prevRuns # <<>> /\ RawOnly(prevRuns[1].source)) =>
          /\ source = prevRuns[1].out
          /\ ret.out = prevRuns[1].out
          /\ ~ret.failed

C15_Witness ==
    /\ Done
    /\ prevRuns # <<>>
    /\ prevRuns[1].source = <<"\f">> \o <<"x"," ","="," ","y",";"," ">>
    /\ source = <<"x"," ","="," ","y",";","\n">>
    /\ ret.out = <<"x"," ","="," ","y",";","\n">>

---------------------------------------------------------------------------
(* C16 *)

\* what transpileTag gives for the tag parseTag returned in this step
RenderedNow == transpileTag(LastReturned', targetLang, indentLevel)

\* the text is written where the tag occurred: into the output with a newline
\* at top level, at the end of the parent's content when nested, the enclosing
\* activations staying as they were
WrittenInPlace(text) ==
    IF stack' = <<>>
    THEN result' = result \o text \o <<"\n">> /\ pc' = "scan"
    ELSE /\ pc' = "content"
         /\ Len(stack') <= Len(stack)
         /\ \A k \in 1..(Len(stack') - 1) : stack'[k] = stack[k]
         /\ stack'[Len(stack')].content = stack[Len(stack')].content \o text

\* C16: an identifier-validation error in one tag does not stop the rendering:
\* the tag's placeholder comment is written in its place and the error is
\* appended to the error list; every tag returned after an error was recorded
\* (sibling or ancestor) is still rendered; Parse returns the output together
\* with an error that reports the recorded entries.
C16_ValidationErrorIsLocal ==
    /\ [][(Len(returned') > Len(returned) /\ RenderedNow.errs # <<>>) =>
            /\ IsPrefix(<<"/","*"," ","I","n","v","a","l","i","d"," ">>, RenderedNow.out)
            /\ IsSuffix(<<" ","*","/">>, RenderedNow.out)
            /\ Len(RenderedNow.errs) = 1
            /\ errors' = errors \o RenderedNow.errs
            /\ WrittenInPlace(RenderedNow.out)]_vars
    /\ [][(Len(returned') > Len(returned) /\ errors # <<>>) =>
            WrittenInPlace(RenderedNow.out)]_vars
    /\ []((Done /\ errors # <<>>) =>
            /\ ret.failed
            /\ ret.out = result
            /\ ret.err = <<"p","a","r","s","i","n","g"," ","e","r","r","o","r","s",":"," ">> \o Join(errors, <<";"," ">>))
    /\ []((Done /\ source = <<"<","t","r","y",">","<","f","n","/",">","<","l","o","g",">","1","<","/","l","o","g",">","<","/","t","r","y",">","<","l","o","g",">","2","<","/","l","o","g",">">>) =>
            /\ ret.out = <<"t","r","y"," ","{","\n"," "," ","/","*"," ","I","n","v","a","l","i","d"," ","f","u","n","c","t","i","o","n",":"," ","e","m","p","t","y"," ","i","d","e","n","t","i","f","i","e","r"," ","*","/","c","o","n","s","o","l","e",".","l","o","g","(","1",")",";","\n","}","\n","c","o","n","s","o","l","e",".","l","o","g","(","2",")",";","\n">>
            /\ errors = << <<"i","n","v","a","l","i","d"," ","f","u","n","c","t","i","o","n"," ","n","a","m","e",":"," ","e","m","p","t","y"," ","i","d","e","n","t","i","f","i","e","r">> >>
            /\ ret.failed)

C16_Witness ==
    /\ Done
    /\ source = <<"<","t","r","y",">","<","f","n","/",">","<","l","o","g",">","1","<","/","l","o","g",">","<","/","t","r","y",">","<","l","o","g",">","2","<","/","l","o","g",">">>
    /\ Len(returned) = 4
    /\ returned[1].Name = <<"f","n">>
    /\ ret.err = <<"p","a","r","s","i","n","g"," ","e","r","r","o","r","s",":"," ","i","n","v","a","l","i","d"," ","f","u","n","c","t","i","o","n"," ","n","a","m","e",":"," ","e","m","p","t","y"," ","i","d","e","n","t","i","f","i","e","r">>
    /\ ret.out = <<"t","r","y"," ","{","\n"," "," ","/","*"," ","I","n","v","a","l","i","d"," ","f","u","n","c","t","i","o","n",":"," ","e","m","p","t","y"," ","i","d","e","n","t","i","f","i","e","r"," ","*","/","c","o","n","s","o","l","e",".","l","o","g","(","1",")",";","\n","}","\n","c","o","n","s","o","l","e",".","l","o","g","(","2",")",";","\n">>

---------------------------------------------------------------------------
(* C17 *)

\* C17: after any sequence of Get and Set calls the cache holds at most
\* MaxCacheSize entries.
C17_CacheBounded == Cardinality(DOMAIN cache) <= MaxCacheSize

\* the cache is full after an entry was evicted from it
C17_Witness ==
    /\ Cardinality(DOMAIN cache) = MaxCacheSize
    /\ \E k \in Range(used) : k \notin DOMAIN cache

---------------------------------------------------------------------------
(* C18 *)

\* the place of key in the order of last use
LastUse(key) == CHOOSE i \in 1..Len(used) : used[i] = key

\* C18 as claimed: the entry a Set evicts is the least recently used one: every
\* entry that stays was used (stored or found by Get) after it.
C18_EvictsLeastRecentlyUsed ==
    [][\A e \in DOMAIN cache \ DOMAIN cache' :
          \A k \in (DOMAIN cache \cap DOMAIN cache') : LastUse(e) < LastUse(k)]_vars

---------------------------------------------------------------------------
(* C19 *)

\* the code is empty, longer than MaxCodeLength, or holds one of the five
\* patterns in any case of letters
Rejectable(code) ==
    \/ code = <<>>
    \/ Len(code) > MaxCodeLength
    \/ \E lower \in {ToLower(code)} :
          \E p \in { <<"e","v","a","l","(">>, <<"e","x","e","c","(">>, <<"_","_","i","m","p","o","r","t","_","_">>, <<"s","u","b","p","r","o","c","e","s","s">>, <<"o","s",".","s","y","s","t","e","m">> } :
             \E i \in 1..Len(code) : HasPrefixAt(lower, i, p)

\* handler r holds a decoded request with such a code
Refuses(r) == req[r].Decodes /\ Rejectable(req[r].Code)

\* C19: a request whose code is empty, longer than MaxCodeLength or holds
\* "eval(", "exec(", "__import__", "subprocess" or "os.system" in any case is
\* answered with success=false before the cache or a transpiler is used: its
\* handler only decodes and validates, takes no lock, starts no parser, and its
\* steps leave the cache, the stored responses and the order of use unchanged.
C19_RejectedBeforeCache ==
    /\ [](\A r \in Handlers : Refuses(r) =>
            /\ rpc[r] \in {"validate", "done"}
            /\ r \notin readers /\ writer # r /\ parsing # r
            /\ rpc[r] = "done" =>
                  /\ resp[r].Body.Success = FALSE
                  /\ Len(resp[r].Body.Errors) = 1
                  /\ resp[r].Body.Output = <<>>)
    /\ [][\A r \in Handlers : (Refuses(r)' /\ rpc'[r] # rpc[r]) =>
            /\ cache' = cache
            /\ heap' = heap
            /\ used' = used
            /\ readers' = readers
            /\ writer' = writer
            /\ parsing' = parsing]_vars

\* a response is stored, and a handler has refused EVAL(1)
C19_Witness ==
    \E r \in Handlers :
        /\ rpc[r] = "done"
        /\ req[r].Code = <<"E","V","A","L","(","1",")">>
        /\ resp[r].Body.Success = FALSE
        /\ resp[r].Body.Errors = << <<"u","n","s","a","f","e"," ","p","a","t","t","e","r","n"," ","d","e","t","e","c","t","e","d">> >>
        /\ DOMAIN cache # {}

---------------------------------------------------------------------------
(* C20 *)

\* the response object is stored in the cache or held by another handler
Shared(r, obj) ==
    \/ \E k \in DOMAIN cache : cache[k].result = obj
    \/ \E q \in Handlers \ {r} : loc[q].cached = obj /\ rpc[q] # "done"

\* C20 as claimed: a handler reads a response object that other requests can
\* reach only while it holds cache.mu, and writes it only while it holds
\* cache.mu exclusively.
C20_SharedAccessUnderLock ==
    \A r \in Handlers :
        (access[r].kind # "none" /\ Shared(r, access[r].obj)) =>
            IF access[r].kind = "write" THEN writer = r
            ELSE r \in readers \/ writer = r

\* no two handlers are at the same response object while one of them writes it
C20_NoDataRace ==
    \A r, q \in Handlers :
        (r # q /\ access[r].kind = "write" /\ access[q].kind # "none") =>
            access[r].obj # access[q].obj
---------------------------------------------------------------------------
(* C21 *)

\* the indices of s where "<name" starts
TagStarts(s, name) == {i \in 1..Len(s) : s[i] = "<" /\ NameFrom(s, i + 1) = name}

\* the tags named name that parseTag has returned so far
ReturnedNamed(name) == {k \in 1..Len(returned) : returned[k].Name = name}

\* C21: the scanner never goes back across a tag: within one run of Parse every
\* tag occurrence of the source is parsed and transpiled at most once, so that
\* of each name no more tags are returned than the input has "<name" in it
C21_EachTagParsedOnce ==
    \A k \in 1..Len(returned) :
        Cardinality(ReturnedNamed(returned[k].Name))
            <= Cardinality(TagStarts(input, returned[k].Name))
---------------------------------------------------------------------------
(* C22 *)

\* the cursor is at "</other", other not being the name of the tag whose content
\* is scanned
AtOtherClose == AtClosing /\ ClosingName.val # Top.tagName

\* the tag being scanned is in the middle of, or just behind, the close sequence
\* "</other" that starts at index lt of the input
InsideOtherClose(lt) ==
    /\ pc = "content"
    /\ lt > Top.startPos
    /\ HasPrefixAt(input, lt, <<"<", "/">>)
    /\ NameFrom(input, lt + 2) # Top.tagName
    /\ position >= lt
    /\ position <= lt + 1 + Len(NameFrom(input, lt + 2))

\* C22: in a tag's content a close sequence "</other" of another name is literal
\* text: the cursor goes back to the "<" and one character on (offset and column
\* one more than at the "<", the line the same), the "<" is appended to the
\* content, no error is recorded and no tag ends, and every character of the
\* close sequence ends up in the content
C22_OtherCloseIsLiteral ==
    /\ [][AtOtherClose =>
            /\ position' = position + 1
            /\ line' = line
            /\ column' = column + 1
            /\ pc' = "content"
            /\ Len(stack') = Len(stack)
            /\ stack'[Len(stack)] = [Top EXCEPT !.content = Append(@, "<")]
            /\ errors' = errors
            /\ warnings' = warnings
            /\ returned' = returned]_vars
    /\ [](\A lt \in 1..Len(input) :
            InsideOtherClose(lt) => IsSuffix(SubSeq(input, lt, position), Top.content))

C22_Witness ==
    /\ Done
    /\ source = <<"<","i","f",">","<","/","b",">","<","/","i","f",">">>
    /\ errors = <<>>
    /\ Len(returned) = 1
    /\ returned[1].Content = <<"<","/","b",">">>
---------------------------------------------------------------------------
(* C23 *)

\* the cursor is at the closing tag "</name>" of the tag being scanned
AtOwnClose ==
    /\ AtClosing
    /\ ClosingName.val = Top.tagName
    /\ peek(input, skipWhitespace(input, ClosingName.cur)) = ">"

\* the frames of the tags that are open, innermost last
OpenNames == [k \in 1..Len(stack) |-> stack[k].tagName]

\* C23: a closing tag ends the innermost tag that is still open: when tags of one
\* name are nested, the first closing tag completes the inner tag, with the
\* content scanned since its own ">", and leaves every outer tag open; the next
\* one completes the outer tag; both are rendered and no error is recorded
C23_CloseMatchesInnermost ==
    /\ [][AtOwnClose =>
            /\ Len(returned') = Len(returned) + 1
            /\ LastReturned' = [Top.tag EXCEPT !.Content = TrimSpace(Top.content)]
            /\ Len(stack') = Len(stack) - 1
            /\ \A k \in 1..Len(stack') :
                  /\ stack'[k].tag.Line = stack[k].tag.Line
                  /\ stack'[k].tag.Column = stack[k].tag.Column
                  /\ stack'[k].startPos = stack[k].startPos
            /\ errors' = errors]_vars
    /\ []((Done /\ source = <<"<","i","f"," ","c","o","n","d","i","t","i","o","n","=","\"","a","\"",">","<","i","f",">","x","<","/","i","f",">","<","/","i","f",">">>) =>
            /\ Len(returned) = 2
            /\ returned[1].Content = <<"x">>
            /\ returned[1].Column > returned[2].Column
            /\ returned[2].Children = <<returned[1]>>
            /\ returned[2].Content = <<"i","f"," ","(","x",")"," ","{","\n"," "," ","x","\n","}">>
            /\ errors = <<>>
            /\ ~ret.failed
            /\ ret.out = <<"i","f"," ","(","a",")"," ","{","\n"," "," ","i","f"," ","(","x",")"," ","{","\n"," "," "," "," ","x","\n"," "," ","}","\n","}","\n">>)

\* the inner closing tag is met with two tags of one name open
C23_Witness ==
    /\ source = <<"<","i","f"," ","c","o","n","d","i","t","i","o","n","=","\"","a","\"",">","<","i","f",">","x","<","/","i","f",">","<","/","i","f",">">>
    /\ Len(stack) = 2
    /\ OpenNames = << <<"i","f">>, <<"i","f">> >>
    /\ AtOwnClose
---------------------------------------------------------------------------
(* C24 *)

\* the tags from callTag inwards: callTag, its child, ... down to the innermost
Inwards ==
    LET RECURSIVE go(_)
        go(tag) == IF tag.Children = <<>> THEN <<tag>> ELSE <<tag>> \o go(tag.Children[1])
    IN go(callTag)

\* the content of the innermost tag, line by line
InnermostLines == Split(Inwards[Len(Inwards)].Content, "\n")

Spaces(n) == [i \in 1..n |-> " "]

\* line with one indentation level in front, or the empty line when it is blank
OneLevelDeeper(ln) == IF TrimSpace(ln) = <<>> THEN <<>> ELSE <<" "," ">> \o ln

\* the lines of a block's text between its first line "... {" and its last "}"
BodyOf(text) == With(Split(text, "\n"), LAMBDA ls : SubSeq(ls, 2, Len(ls) - 1))

\* C24: indentBlock puts exactly two spaces in front of every non-blank line of a
\* body and makes every whitespace-only line the empty string, and the parser's
\* indentation depth after the call is what it was before; a line of a body
\* inside d block tags has exactly 2*d spaces more in front
C24_IndentBlock ==
    /\ indentLevel = 0
    /\ \A d \in 1..Len(callOut) :
          \E tag \in {Inwards[Len(Inwards) - d + 1]},
             inner \in {Split(TrimSpace(Inwards[Len(Inwards) - d + 1].Content), "\n")},
             outer \in {BodyOf(callOut[d])} :
             /\ Len(outer) = Len(inner)
             /\ \A i \in 1..Len(inner) : outer[i] = OneLevelDeeper(inner[i])
             /\ Len(InnermostLines) = Len(inner) - 2 * (d - 1)
             /\ \A i \in 1..Len(InnermostLines) :
                   outer[i + d - 1] =
                       IF TrimSpace(InnermostLines[i]) = <<>> THEN <<>>
                       ELSE Spaces(2 * d) \o InnermostLines[i]

\* a body with an indented line and a whitespace-only line, inside two tags
C24_Witness ==
    /\ Len(callOut) = 2
    /\ InnermostLines = << <<"x">>, <<" ">>, <<" ","y",";">> >>
    /\ callOut[1] = <<"w","h","i","l","e"," ","(","t","r","u","e",")"," ","{","\n"," "," ","x","\n","\n"," "," "," ","y",";","\n","}">>
    /\ callOut[2] = <<"t","r","y"," ","{","\n"," "," ","w","h","i","l","e"," ","(","t","r","u","e",")"," ","{","\n"," "," "," "," ","x","\n","\n"," "," "," "," "," ","y",";","\n"," "," ","}","\n","}">>
---------------------------------------------------------------------------
(* C25 *)

IsArrayKind(tag) == tag.Name \in { <<"a","r","r","a","y">>, <<"l","i","s","t">> }

\* the items of an array tag: its attribute "items", or its content when it has
\* no such attribute
ItemsOf(tag) ==
    IF <<"i","t","e","m","s">> \in DOMAIN tag.Attributes THEN tag.Attributes[<<"i","t","e","m","s">>]
    ELSE tag.Content

\* C25: an array or list tag renders "[<items>]", <items> being the attribute
\* "items" or, when the tag has no such attribute, the tag's content
C25_ArrayItemsOrContent ==
    /\ \A k \in 1..Len(returned) :
          IsArrayKind(returned[k]) =>
              transpileTag(returned[k], targetLang, indentLevel).out
                  = <<"[">> \o ItemsOf(returned[k]) \o <<"]">>
    /\ (Done /\ source = <<"<","a","r","r","a","y",">","1",","," ","2","<","/","a","r","r","a","y",">">>) => ret.out = <<"[","1",","," ","2","]","\n">>
    /\ (Done /\ source = <<"<","l","i","s","t"," ","i","t","e","m","s","=","\"","1",","," ","2","\"",">","3","<","/","l","i","s","t",">">>) => ret.out = <<"[","1",","," ","2","]","\n">>
---------------------------------------------------------------------------
(* C27 *)

\* C27: at every point of a run of Parse the cursor is consistent: line is 1
\* plus the number of newlines in front of the position, and column is 1 plus
\* the number of characters since the last of them (or since the start); this
\* holds after every step of error recovery too
C27_CursorConsistent ==
    /\ line = LineAt(input, position)
    /\ column = ColumnAt(input, position)
---------------------------------------------------------------------------
(* C28 *)

\* the attempt of call f is rejected with an AbortError
AbortErrorFor(f) == Outstanding(f) /\ controllers[fetches[f].signal].aborted

---------------------------------------------------------------------------
(* C29 *)

\* call f threw because its fetch was rejected with an AbortError
TimedOut(f) ==
    /\ f \in DOMAIN fetches
    /\ fetches[f].pc = "thrown"
    /\ fetches[f].error \in { <<"R","e","q","u","e","s","t"," ","t","i","m","e","o","u","t"," ","-"," ","b","a","c","k","e","n","d"," ","m","a","y"," ","b","e"," ","s","l","o","w"," ","o","r"," ","u","n","a","v","a","i","l","a","b","l","e">>,
                              <<"A","b","o","r","t","E","r","r","o","r">> }

\* C29: the timeout aborts a request only when that fetch attempt has been
\* outstanding for REQUEST_TIMEOUT: the timer that aborted an attempt is the one
\* armed for it, never the timer of an earlier attempt or of another request
C29_TimeoutAbortsOwnAttempt ==
    \A f \in DOMAIN fetches :
        TimedOut(f) =>
            /\ timers[controllers[fetches[f].signal].abortedBy].controller = fetches[f].signal
            /\ timers[controllers[fetches[f].signal].abortedBy].fetch = f
            /\ controllers[fetches[f].signal].age = REQUEST_TIMEOUT
---------------------------------------------------------------------------
(* C26 *)

\* the message for a text that does not fit the editor's syntax mode, or Null
Mismatch(mode, code) ==
    IF TrimSpace(code) = <<>> THEN Null
    ELSE IF mode = "markup" /\ hasEmojis(code) /\ ~hasMarkupTags(code)
    THEN Str(EmojiDetected)
    ELSE IF mode = "emoji" /\ hasMarkupTags(code) /\ ~hasEmojis(code)
    THEN Str(MarkupDetected)
    ELSE Null

\* timer t runs transpileCode in this step
RunsTranspileCode(t) ==
    /\ Due(t)
    /\ timers[t].kind = "debounce"
    /\ timers'[t].state = "fired"

\* C26: when the mode is markup and the code has emoji but no markup tags, or
\* the mode is emoji and the code has markup tags but no emoji, transpileCode
\* sends no request and leaves the store with the mode-mismatch message in
\* error, an empty output and isTranspiling false
C26_ModeMismatchShown ==
    [][\A t \in DOMAIN timers :
          (RunsTranspileCode(t) /\ Mismatch(store.syntaxMode, timers[t].code) # Null) =>
              /\ fetches' = fetches
              /\ store'.error = Mismatch(store.syntaxMode, timers[t].code)
              /\ store'.output = <<>>
              /\ ~store'.isTranspiling]_vars

---------------------------------------------------------------------------
(* C30 *)

\* the debounce timers that are armed and have not run
PendingDebounce == {t \in DOMAIN timers : IsDebounce(timers[t]) /\ timers[t].state = "pending"}

\* every call of transpileCode has returned
AllSettled == \A i \in DOMAIN transpiles : transpiles[i].pc = "done"

\* C30: with auto-transpile on, at most one debounce timer is pending at any
\* time, a transpile request is issued only by a debounce timer that ran its
\* full delay without an edit, and once every request has ended the output or
\* error in the store is the one of the most recently issued request: the
\* response of an older request does not overwrite the result of a newer one
C30_LatestRequestShown ==
    /\ Cardinality(PendingDebounce) <= 1
    /\ \A t \in PendingDebounce : t = debounceTimer
    /\ \A i \in DOMAIN transpiles :
          \E t \in DOMAIN timers :
              /\ IsDebounce(timers[t])
              /\ timers[t].state = "fired"
              /\ timers[t].left = 0
              /\ timers[t].code = transpiles[i].code
    /\ (/\ settings.autoTranspile
        /\ transpiles # <<>>
        /\ AllSettled
        /\ transpiles[Len(transpiles)].fetch # 0)
         => store = [Settled(store, fetches[transpiles[Len(transpiles)].fetch])
                       EXCEPT !.code = store.code]

\* the parts of C30 that are about the debounce timer alone
C30_DebounceOnly ==
    /\ Cardinality(PendingDebounce) <= 1
    /\ \A t \in PendingDebounce : t = debounceTimer
    /\ \A i \in DOMAIN transpiles :
          \E t \in DOMAIN timers :
              /\ IsDebounce(timers[t])
              /\ timers[t].state = "fired"
              /\ timers[t].left = 0

=============================================================================
